---- MODULE Spec2Model ----
(***************************************************************************)
(* A model of the HPACK decoding context of kurisu-http2                   *)
(* (src/src/header/...): the header table (static + dynamic), the integer  *)
(* and Huffman decoders and the header block decoder; and of the frame     *)
(* views (src/src/frame/...): the frame header and the payloads of the     *)
(* frame types.                                                            *)
(*                                                                         *)
(* Octets are naturals 0..255, strings are sequences of octets (the code   *)
(* builds its Strings with from_utf8_unchecked, so they are octet          *)
(* sequences).  A VecDeque is a sequence whose element 1 is the front.     *)
(***************************************************************************)
EXTENDS Naturals, Sequences, FiniteSets

VARIABLES
    table,          \* Table { dyn_table, current_size, max_size }
    call,           \* the last call made on the Table or HeaderList API, with the state before it
    block,          \* the hpack_block handed to get_header_list
    bts,            \* the octets of the block not yet consumed by the iterator
    header_list,    \* HeaderList being built by get_header_list
    pc,             \* position of get_header_list: idle, loop, ok, err, panic
    reps,           \* history: the representations decoded so far in this block
    inserted,       \* history: the entries pushed into dyn_table, oldest first
    init_max_size,  \* the max_size this Decoder was constructed with
    budget,         \* octets the peer may still send on this connection
    pure,           \* the last call of a codec or frame function: fn, args, ret
    frame           \* a frame view: its buffer and the values written to it

vars == <<table, call, block, bts, header_list, pc, reps, inserted,
          init_max_size, budget, pure, frame>>

---------------------------------------------------------------------------
(* Bounds of the model *)

\* longest literal name / value handed to the Table API directly
MaxNameLen == 1
MaxValueLen == 2
\* largest max_size a Table is created with or updated to through the API
MaxSize == 100
\* octets decoded over the life of one Decoder
MaxOctets == 4

---------------------------------------------------------------------------
(* Octet arithmetic *)

RECURSIVE BitAnd(_, _)
BitAnd(a, b) ==
    IF a = 0 \/ b = 0 THEN 0
    ELSE (a % 2) * (b % 2) + 2 * BitAnd(a \div 2, b \div 2)

RECURSIVE Pow2(_)
Pow2(n) == IF n = 0 THEN 1 ELSE 2 * Pow2(n - 1)

\* A u32 is a pair <<high, low>> of 16-bit halves (TLC's own integers are
\* 32-bit signed and cannot hold one).
U16 == 65536
u32(n) == <<n \div U16, n % U16>>

\* `x as usize`, for a u32 x.  The decoder only compares the result with table
\* sizes, indices and lengths, all far below 2^31 - 1, which stands for every
\* value at or above it.
as_usize(x) == IF x[1] >= 32768 THEN 2147483647 ELSE x[1] * U16 + x[2]

RECURSIVE SeqsUpTo(_, _)
SeqsUpTo(S, n) ==
    IF n = 0 THEN {<<>>}
    ELSE LET shorter == SeqsUpTo(S, n - 1)
         IN  shorter \cup {Append(s, x) : s \in shorter, x \in S}

Ok(v) == [ok |-> TRUE, val |-> v]
Err(msg) == [ok |-> FALSE, err |-> msg]

\* Option<T>: a sequence of no or one value
None == <<>>
Some(v) == <<v>>

---------------------------------------------------------------------------
(* header/hpack/table/static_table.rs *)

STATIC_TABLE ==
    <<
       <<<<58, 97, 117, 116, 104, 111, 114, 105, 116, 121>>, <<>>>>,   \* 1: :authority | 
       <<<<58, 109, 101, 116, 104, 111, 100>>, <<71, 69, 84>>>>,   \* 2: :method | GET
       <<<<58, 109, 101, 116, 104, 111, 100>>, <<80, 79, 83, 84>>>>,   \* 3: :method | POST
       <<<<58, 112, 97, 116, 104>>, <<47>>>>,   \* 4: :path | /
       <<<<58, 112, 97, 116, 104>>, <<47, 105, 110, 100, 101, 120, 46, 104, 116, 109, 108>>>>,   \* 5: :path | /index.html
       <<<<58, 115, 99, 104, 101, 109, 101>>, <<104, 116, 116, 112>>>>,   \* 6: :scheme | http
       <<<<58, 115, 99, 104, 101, 109, 101>>, <<104, 116, 116, 112, 115>>>>,   \* 7: :scheme | https
       <<<<58, 115, 116, 97, 116, 117, 115>>, <<50, 48, 48>>>>,   \* 8: :status | 200
       <<<<58, 115, 116, 97, 116, 117, 115>>, <<50, 48, 52>>>>,   \* 9: :status | 204
       <<<<58, 115, 116, 97, 116, 117, 115>>, <<50, 48, 54>>>>,   \* 10: :status | 206
       <<<<58, 115, 116, 97, 116, 117, 115>>, <<51, 48, 52>>>>,   \* 11: :status | 304
       <<<<58, 115, 116, 97, 116, 117, 115>>, <<52, 48, 48>>>>,   \* 12: :status | 400
       <<<<58, 115, 116, 97, 116, 117, 115>>, <<52, 48, 52>>>>,   \* 13: :status | 404
       <<<<58, 115, 116, 97, 116, 117, 115>>, <<53, 48, 48>>>>,   \* 14: :status | 500
       <<<<97, 99, 99, 101, 112, 116, 45, 99, 104, 97, 114, 115, 101, 116>>, <<>>>>,   \* 15: accept-charset | 
       <<<<97, 99, 99, 101, 112, 116, 45, 101, 110, 99, 111, 100, 105, 110, 103>>, <<103, 122, 105, 112, 44, 32, 100, 101, 102, 108, 97, 116, 101>>>>,   \* 16: accept-encoding | gzip, deflate
       <<<<97, 99, 99, 101, 112, 116, 45, 108, 97, 110, 103, 117, 97, 103, 101>>, <<>>>>,   \* 17: accept-language | 
       <<<<97, 99, 99, 101, 112, 116, 45, 114, 97, 110, 103, 101, 115>>, <<>>>>,   \* 18: accept-ranges | 
       <<<<97, 99, 99, 101, 112, 116>>, <<>>>>,   \* 19: accept | 
       <<<<97, 99, 99, 101, 115, 115, 45, 99, 111, 110, 116, 114, 111, 108, 45, 97, 108, 108, 111, 119, 45, 111, 114, 105, 103, 105, 110>>, <<>>>>,   \* 20: access-control-allow-origin | 
       <<<<97, 103, 101>>, <<>>>>,   \* 21: age | 
       <<<<97, 108, 108, 111, 119>>, <<>>>>,   \* 22: allow | 
       <<<<97, 117, 116, 104, 111, 114, 105, 122, 97, 116, 105, 111, 110>>, <<>>>>,   \* 23: authorization | 
       <<<<99, 97, 99, 104, 101, 45, 99, 111, 110, 116, 114, 111, 108>>, <<>>>>,   \* 24: cache-control | 
       <<<<99, 111, 110, 116, 101, 110, 116, 45, 100, 105, 115, 112, 111, 115, 105, 116, 105, 111, 110>>, <<>>>>,   \* 25: content-disposition | 
       <<<<99, 111, 110, 116, 101, 110, 116, 45, 101, 110, 99, 111, 100, 105, 110, 103>>, <<>>>>,   \* 26: content-encoding | 
       <<<<99, 111, 110, 116, 101, 110, 116, 45, 108, 97, 110, 103, 117, 97, 103, 101>>, <<>>>>,   \* 27: content-language | 
       <<<<99, 111, 110, 116, 101, 110, 116, 45, 108, 101, 110, 103, 116, 104>>, <<>>>>,   \* 28: content-length | 
       <<<<99, 111, 110, 116, 101, 110, 116, 45, 108, 111, 99, 97, 116, 105, 111, 110>>, <<>>>>,   \* 29: content-location | 
       <<<<99, 111, 110, 116, 101, 110, 116, 45, 114, 97, 110, 103, 101>>, <<>>>>,   \* 30: content-range | 
       <<<<99, 111, 110, 116, 101, 110, 116, 45, 116, 121, 112, 101>>, <<>>>>,   \* 31: content-type | 
       <<<<99, 111, 111, 107, 105, 101>>, <<>>>>,   \* 32: cookie | 
       <<<<100, 97, 116, 101>>, <<>>>>,   \* 33: date | 
       <<<<101, 116, 97, 103>>, <<>>>>,   \* 34: etag | 
       <<<<101, 120, 112, 101, 99, 116>>, <<>>>>,   \* 35: expect | 
       <<<<101, 120, 112, 105, 114, 101, 115>>, <<>>>>,   \* 36: expires | 
       <<<<102, 114, 111, 109>>, <<>>>>,   \* 37: from | 
       <<<<104, 111, 115, 116>>, <<>>>>,   \* 38: host | 
       <<<<105, 102, 45, 109, 97, 116, 99, 104>>, <<>>>>,   \* 39: if-match | 
       <<<<105, 102, 45, 109, 111, 100, 105, 102, 105, 101, 100, 45, 115, 105, 110, 99, 101>>, <<>>>>,   \* 40: if-modified-since | 
       <<<<105, 102, 45, 110, 111, 110, 101, 45, 109, 97, 116, 99, 104>>, <<>>>>,   \* 41: if-none-match | 
       <<<<105, 102, 45, 114, 97, 110, 103, 101>>, <<>>>>,   \* 42: if-range | 
       <<<<105, 102, 45, 117, 110, 109, 111, 100, 105, 102, 105, 101, 100, 45, 115, 105, 110, 99, 101>>, <<>>>>,   \* 43: if-unmodified-since | 
       <<<<108, 97, 115, 116, 45, 109, 111, 100, 105, 102, 105, 101, 100>>, <<>>>>,   \* 44: last-modified | 
       <<<<108, 105, 110, 107>>, <<>>>>,   \* 45: link | 
       <<<<108, 111, 99, 97, 116, 105, 111, 110>>, <<>>>>,   \* 46: location | 
       <<<<109, 97, 120, 45, 102, 111, 114, 119, 97, 114, 100, 115>>, <<>>>>,   \* 47: max-forwards | 
       <<<<112, 114, 111, 120, 121, 45, 97, 117, 116, 104, 101, 110, 116, 105, 99, 97, 116, 101>>, <<>>>>,   \* 48: proxy-authenticate | 
       <<<<112, 114, 111, 120, 121, 45, 97, 117, 116, 104, 111, 114, 105, 122, 97, 116, 105, 111, 110>>, <<>>>>,   \* 49: proxy-authorization | 
       <<<<114, 97, 110, 103, 101>>, <<>>>>,   \* 50: range | 
       <<<<114, 101, 102, 101, 114, 101, 114>>, <<>>>>,   \* 51: referer | 
       <<<<114, 101, 102, 114, 101, 115, 104>>, <<>>>>,   \* 52: refresh | 
       <<<<114, 101, 116, 114, 121, 45, 97, 102, 116, 101, 114>>, <<>>>>,   \* 53: retry-after | 
       <<<<115, 101, 114, 118, 101, 114>>, <<>>>>,   \* 54: server | 
       <<<<115, 101, 116, 45, 99, 111, 111, 107, 105, 101>>, <<>>>>,   \* 55: set-cookie | 
       <<<<115, 116, 114, 105, 99, 116, 45, 116, 114, 97, 110, 115, 112, 111, 114, 116, 45, 115, 101, 99, 117, 114, 105, 116, 121>>, <<>>>>,   \* 56: strict-transport-security | 
       <<<<116, 114, 97, 110, 115, 102, 101, 114, 45, 101, 110, 99, 111, 100, 105, 110, 103>>, <<>>>>,   \* 57: transfer-encoding | 
       <<<<117, 115, 101, 114, 45, 97, 103, 101, 110, 116>>, <<>>>>,   \* 58: user-agent | 
       <<<<118, 97, 114, 121>>, <<>>>>,   \* 59: vary | 
       <<<<118, 105, 97>>, <<>>>>,   \* 60: via | 
       <<<<119, 119, 119, 45, 97, 117, 116, 104, 101, 110, 116, 105, 99, 97, 116, 101>>, <<>>>>   \* 61: www-authenticate | 
    >>

TableEntry(name, value) == <<name, value>>

(* header/mod.rs *)

HeaderEntry(name, value) == [name |-> name, value |-> value]

\* impl From<TableEntry> for HeaderEntry
IntoHeaderEntry(entry) == HeaderEntry(entry[1], entry[2])

---------------------------------------------------------------------------
(* header/hpack/table/mod.rs *)

new(max_size) == [dyn_table |-> <<>>, current_size |-> 0, max_size |-> max_size]

size_of_entry(entry) == Len(entry[1]) + Len(entry[2]) + 32

num_dyn_entries(t) == Len(t.dyn_table)

\* mutant: index 0 is taken for the first static entry
get_entry_zero_first(t, index) ==
    LET ne == Len(t.dyn_table) + 62
    IN  IF index \in 0..1 THEN Ok(STATIC_TABLE[1])
        ELSE IF index \in 2..61 THEN Ok(STATIC_TABLE[index - 1 + 1])
        ELSE IF index < ne THEN Ok(t.dyn_table[index - 62 + 1])
        ELSE Err("hpack: index is out of range")

\* mutant: dynamic indices counted from the oldest entry
get_entry_from_back(t, index) ==
    LET ne == Len(t.dyn_table) + 62
    IN  IF index = 0 THEN Err("hpack: index of 0 was found")
        ELSE IF index \in 1..61 THEN Ok(STATIC_TABLE[index - 1 + 1])
        ELSE IF index < ne THEN Ok(t.dyn_table[Len(t.dyn_table) - (index - 62)])
        ELSE Err("hpack: index is out of range")

get_entry(t, index) ==
    LET ne == Len(t.dyn_table) + 62
    IN  IF index = 0 THEN Err("hpack: index of 0 was found")
        ELSE IF index \in 1..61 THEN Ok(STATIC_TABLE[index - 1 + 1])
        ELSE IF index < ne THEN Ok(t.dyn_table[index - 62 + 1])
        ELSE Err("hpack: index is out of range")

\* mutant: the newest entry is the one removed
pop_front(t) ==
    [t EXCEPT !.dyn_table = Tail(t.dyn_table),
              !.current_size = t.current_size - size_of_entry(t.dyn_table[1])]

pop_back(t) ==
    [t EXCEPT !.dyn_table = SubSeq(t.dyn_table, 1, Len(t.dyn_table) - 1),
              !.current_size =
                  t.current_size - size_of_entry(t.dyn_table[Len(t.dyn_table)])]

\* mutant: an `if` in place of the `while`: at most one entry is evicted
evict_once(t, size) ==
    IF t.current_size + size > t.max_size /\ t.dyn_table # <<>>
    THEN pop_back(t)
    ELSE t

RECURSIVE evict(_, _)
evict(t, size) ==
    IF t.current_size + size > t.max_size
    THEN IF t.dyn_table # <<>> THEN evict(pop_back(t), size) ELSE t
    ELSE t

\* mutant: the entry is pushed without the second room check
add_unchecked(t, entry) ==
    LET entry_size == size_of_entry(entry)
        e == evict(t, entry_size)
    IN  [e EXCEPT !.current_size = e.current_size + entry_size,
                  !.dyn_table = <<entry>> \o e.dyn_table]

add(t, entry) ==
    LET entry_size == size_of_entry(entry)
        e == evict(t, entry_size)
    IN  IF e.current_size + entry_size <= e.max_size
        THEN [e EXCEPT !.current_size = e.current_size + entry_size,
                       !.dyn_table = <<entry>> \o e.dyn_table]
        ELSE e

\* mutant: the entry is inserted before the name index is looked at
add_entry_id_eager(t, name_id, value) ==
    LET entry == get_entry(t, name_id)
    IN  IF ~entry.ok
        THEN [table |-> add(t, TableEntry(<<>>, value)), result |-> entry]
        ELSE [table |-> add(t, TableEntry(entry.val[1], value)),
              result |-> Ok(<<>>)]

\* mutant: the name is looked up once room was made for the new entry
add_entry_id_after_evict(t, name_id, value) ==
    LET entry == get_entry(t, name_id)
        room == evict(t, size_of_entry(TableEntry(entry.val[1], value)))
        late == get_entry(room, name_id)
    IN  IF ~entry.ok THEN [table |-> t, result |-> entry]
        ELSE [table |-> add(t, TableEntry(IF late.ok THEN late.val[1]
                                          ELSE <<>>, value)),
              result |-> Ok(<<>>)]

\* returns the table after the call and the Result of the call
add_entry_id(t, name_id, value) ==
    LET entry == get_entry(t, name_id)
    IN  IF ~entry.ok THEN [table |-> t, result |-> entry]
        ELSE [table |-> add(t, TableEntry(entry.val[1], value)),
              result |-> Ok(<<>>)]

add_entry_literal(t, name, value) == add(t, TableEntry(name, value))

get_header_entry(t, index) ==
    LET entry == get_entry(t, index)
    IN  IF ~entry.ok THEN entry ELSE Ok(IntoHeaderEntry(entry.val))

get_name_rc(t, index) ==
    LET entry == get_entry(t, index)
    IN  IF ~entry.ok THEN entry ELSE Ok(entry.val[1])

max_size_update(t, new_max_size) == evict([t EXCEPT !.max_size = new_max_size], 0)

---------------------------------------------------------------------------
(* header/hpack/huffman.rs *)

HUFFMAN_TABLE ==
    <<
       <<8184, 13>>, <<8388568, 23>>, <<268435426, 28>>, <<268435427, 28>>,
       <<268435428, 28>>, <<268435429, 28>>, <<268435430, 28>>, <<268435431, 28>>,
       <<268435432, 28>>, <<16777194, 24>>, <<1073741820, 30>>, <<268435433, 28>>,
       <<268435434, 28>>, <<1073741821, 30>>, <<268435435, 28>>, <<268435436, 28>>,
       <<268435437, 28>>, <<268435438, 28>>, <<268435439, 28>>, <<268435440, 28>>,
       <<268435441, 28>>, <<268435442, 28>>, <<1073741822, 30>>, <<268435443, 28>>,
       <<268435444, 28>>, <<268435445, 28>>, <<268435446, 28>>, <<268435447, 28>>,
       <<268435448, 28>>, <<268435449, 28>>, <<268435450, 28>>, <<268435451, 28>>,
       <<20, 6>>, <<1016, 10>>, <<1017, 10>>, <<4090, 12>>,
       <<8185, 13>>, <<21, 6>>, <<248, 8>>, <<2042, 11>>,
       <<1018, 10>>, <<1019, 10>>, <<249, 8>>, <<2043, 11>>,
       <<250, 8>>, <<22, 6>>, <<23, 6>>, <<24, 6>>,
       <<0, 5>>, <<1, 5>>, <<2, 5>>, <<25, 6>>,
       <<26, 6>>, <<27, 6>>, <<28, 6>>, <<29, 6>>,
       <<30, 6>>, <<31, 6>>, <<92, 7>>, <<251, 8>>,
       <<32764, 15>>, <<32, 6>>, <<4091, 12>>, <<1020, 10>>,
       <<8186, 13>>, <<33, 6>>, <<93, 7>>, <<94, 7>>,
       <<95, 7>>, <<96, 7>>, <<97, 7>>, <<98, 7>>,
       <<99, 7>>, <<100, 7>>, <<101, 7>>, <<102, 7>>,
       <<103, 7>>, <<104, 7>>, <<105, 7>>, <<106, 7>>,
       <<107, 7>>, <<108, 7>>, <<109, 7>>, <<110, 7>>,
       <<111, 7>>, <<112, 7>>, <<113, 7>>, <<114, 7>>,
       <<252, 8>>, <<115, 7>>, <<253, 8>>, <<8187, 13>>,
       <<524272, 19>>, <<8188, 13>>, <<16380, 14>>, <<34, 6>>,
       <<32765, 15>>, <<3, 5>>, <<35, 6>>, <<4, 5>>,
       <<36, 6>>, <<5, 5>>, <<37, 6>>, <<38, 6>>,
       <<39, 6>>, <<6, 5>>, <<116, 7>>, <<117, 7>>,
       <<40, 6>>, <<41, 6>>, <<42, 6>>, <<7, 5>>,
       <<43, 6>>, <<118, 7>>, <<44, 6>>, <<8, 5>>,
       <<9, 5>>, <<45, 6>>, <<119, 7>>, <<120, 7>>,
       <<121, 7>>, <<122, 7>>, <<123, 7>>, <<32766, 15>>,
       <<2044, 11>>, <<16381, 14>>, <<8189, 13>>, <<268435452, 28>>,
       <<1048550, 20>>, <<4194258, 22>>, <<1048551, 20>>, <<1048552, 20>>,
       <<4194259, 22>>, <<4194260, 22>>, <<4194261, 22>>, <<8388569, 23>>,
       <<4194262, 22>>, <<8388570, 23>>, <<8388571, 23>>, <<8388572, 23>>,
       <<8388573, 23>>, <<8388574, 23>>, <<16777195, 24>>, <<8388575, 23>>,
       <<16777196, 24>>, <<16777197, 24>>, <<4194263, 22>>, <<8388576, 23>>,
       <<16777198, 24>>, <<8388577, 23>>, <<8388578, 23>>, <<8388579, 23>>,
       <<8388580, 23>>, <<2097116, 21>>, <<4194264, 22>>, <<8388581, 23>>,
       <<4194265, 22>>, <<8388582, 23>>, <<8388583, 23>>, <<16777199, 24>>,
       <<4194266, 22>>, <<2097117, 21>>, <<1048553, 20>>, <<4194267, 22>>,
       <<4194268, 22>>, <<8388584, 23>>, <<8388585, 23>>, <<2097118, 21>>,
       <<8388586, 23>>, <<4194269, 22>>, <<4194270, 22>>, <<16777200, 24>>,
       <<2097119, 21>>, <<4194271, 22>>, <<8388587, 23>>, <<8388588, 23>>,
       <<2097120, 21>>, <<2097121, 21>>, <<4194272, 22>>, <<2097122, 21>>,
       <<8388589, 23>>, <<4194273, 22>>, <<8388590, 23>>, <<8388591, 23>>,
       <<1048554, 20>>, <<4194274, 22>>, <<4194275, 22>>, <<4194276, 22>>,
       <<8388592, 23>>, <<4194277, 22>>, <<4194278, 22>>, <<8388593, 23>>,
       <<67108832, 26>>, <<67108833, 26>>, <<1048555, 20>>, <<524273, 19>>,
       <<4194279, 22>>, <<8388594, 23>>, <<4194280, 22>>, <<33554412, 25>>,
       <<67108834, 26>>, <<67108835, 26>>, <<67108836, 26>>, <<134217694, 27>>,
       <<134217695, 27>>, <<67108837, 26>>, <<16777201, 24>>, <<33554413, 25>>,
       <<524274, 19>>, <<2097123, 21>>, <<67108838, 26>>, <<134217696, 27>>,
       <<134217697, 27>>, <<67108839, 26>>, <<134217698, 27>>, <<16777202, 24>>,
       <<2097124, 21>>, <<2097125, 21>>, <<67108840, 26>>, <<67108841, 26>>,
       <<268435453, 28>>, <<134217699, 27>>, <<134217700, 27>>, <<134217701, 27>>,
       <<1048556, 20>>, <<16777203, 24>>, <<1048557, 20>>, <<2097126, 21>>,
       <<4194281, 22>>, <<2097127, 21>>, <<2097128, 21>>, <<8388595, 23>>,
       <<4194282, 22>>, <<4194283, 22>>, <<33554414, 25>>, <<33554415, 25>>,
       <<16777204, 24>>, <<16777205, 24>>, <<67108842, 26>>, <<8388596, 23>>,
       <<67108843, 26>>, <<134217702, 27>>, <<67108844, 26>>, <<67108845, 26>>,
       <<134217703, 27>>, <<134217704, 27>>, <<134217705, 27>>, <<134217706, 27>>,
       <<134217707, 27>>, <<268435454, 28>>, <<134217708, 27>>, <<134217709, 27>>,
       <<134217710, 27>>, <<134217711, 27>>, <<134217712, 27>>, <<67108846, 26>>,
       <<1073741823, 30>>
    >>


\* D_TABLE.get(&(code, size)): the table maps HUFFMAN_TABLE[i] to `i as u8`
D_TABLE_get(code, size) ==
    IF \E i \in 1..Len(HUFFMAN_TABLE) : HUFFMAN_TABLE[i] = <<code, size>>
    THEN Ok(((CHOOSE i \in 1..Len(HUFFMAN_TABLE) :
                  HUFFMAN_TABLE[i] = <<code, size>>) - 1) % 256)
    ELSE Err("None")

(* bititor.rs: the bits of each octet, most significant first *)
BitsOfOctet(b) == [k \in 1..8 |-> (b \div Pow2(8 - k)) % 2]

RECURSIVE BitItor(_)
BitItor(octets) ==
    IF octets = <<>> THEN <<>>
    ELSE BitsOfOctet(Head(octets)) \o BitItor(Tail(octets))

\* the loop of Huffman::decode over the bits; every 30-bit string starts with
\* a code of the table, so size stays below 31 and code below 2^30
RECURSIVE decode_bits(_, _, _, _)
decode_bits(bits, code, size, decoded) ==
    IF bits = <<>> THEN decoded
    ELSE LET code1 == (code * 2) + Head(bits)
             size1 == size + 1
             hit == D_TABLE_get(code1, size1)
         IN  IF hit.ok
             THEN decode_bits(Tail(bits), 0, 0, Append(decoded, hit.val))
             ELSE decode_bits(Tail(bits), code1, size1, decoded)

huffman_decode(buf) == decode_bits(BitItor(buf), 0, 0, <<>>)

---------------------------------------------------------------------------
(* header/hpack/integers.rs *)

\* the result of a step over the octet iterator: st is "ok", "err" or
\* "panic", val the value returned and rest the octets left in the iterator
Done(v, rest) == [st |-> "ok", val |-> v, rest |-> rest]
Fail(msg, rest) == [st |-> "err", val |-> msg, rest |-> rest]
Panic(msg) == [st |-> "panic", val |-> msg, rest |-> <<>>]

octet_limit == 5

\* ((b & 127) as u32) * (1 << m), exactly, as <<high, low>>: high is 2^16 or
\* more when the product does not fit a u32.  A shift by 32 or more is masked
\* to 5 bits in a build without overflow checks.
shl(x, k) == IF k < 16 THEN u32(x * Pow2(k)) ELSE <<x * Pow2(k - 16), 0>>

shifted(b, m) == shl(BitAnd(b, 127), m % 32)

\* value += product on u32: whether it overflows, and the wrapped sum
carry(value, product) == (value[2] + product[2]) \div U16

overflows(value, product) ==
    \/ product[1] >= U16
    \/ value[1] + product[1] + carry(value, product) >= U16

wrapping_add(value, product) ==
    <<(value[1] + (product[1] % U16) + carry(value, product)) % U16,
      (value[2] + product[2]) % U16>>

\* the `for (i, b) in bts.enumerate()` loop.  u32 and shift overflow abort a
\* build with overflow checks and wrap in one without.
RECURSIVE decode_continuation(_, _, _, _, _)
decode_continuation(octets, value, m, i, dbg) ==
    IF octets = <<>> THEN Fail("hpack integer: not enough octets", <<>>)
    ELSE IF dbg /\ (m >= 32 \/ overflows(value, shifted(Head(octets), m)))
    THEN Panic("arithmetic overflow")
    ELSE IF BitAnd(Head(octets), 128) # 128
    THEN Done(wrapping_add(value, shifted(Head(octets), m)), Tail(octets))
    ELSE IF i = octet_limit
    THEN Fail("hpack integer: to many octets", Tail(octets))
    ELSE decode_continuation(Tail(octets),
                             wrapping_add(value, shifted(Head(octets), m)),
                             m + 7, i + 1, dbg)

\* the prefix octet: the value fits the prefix bits or the loop follows
prefix_octet(value, mask, rest, dbg) ==
    IF value < mask THEN Done(u32(value), rest)
    ELSE decode_continuation(rest, u32(value), 0, 0, dbg)

decode_integer(octets, prefix_size, dbg) ==
    IF prefix_size < 1 \/ prefix_size > 8
    THEN Fail("hpack integer: invalid prefix", octets)
    ELSE IF octets = <<>>
    THEN Fail("hpack integer: not enough octets (0)", <<>>)
    ELSE prefix_octet(BitAnd(Head(octets), Pow2(prefix_size) - 1),
                      Pow2(prefix_size) - 1, Tail(octets), dbg)

\* n < c, n - c (for n >= c) and n >> 7 on a u32 n, for an octet-sized c
lt_u32(n, c) == n[1] = 0 /\ n[2] < c

sub_u32(n, c) ==
    IF n[2] >= c THEN <<n[1], n[2] - c>> ELSE <<n[1] - 1, n[2] + U16 - c>>

shr7(n) == <<n[1] \div 128, (n[1] % 128) * 512 + (n[2] \div 128)>>

\* mutant: the continuation octets carry 8 bits of the value each
RECURSIVE encode_loop_octets(_, _)
encode_loop_octets(n, dest) ==
    IF lt_u32(n, 128) THEN Append(dest, n[2])
    ELSE encode_loop_octets(<<n[1] \div 256, (n[1] % 256) * 256 + (n[2] \div 256)>>,
                            Append(dest, 128 + (n[2] % 128)))

\* the loop of encode_integer: dest holds the octets written so far
RECURSIVE encode_loop(_, _)
encode_loop(n, dest) ==
    IF lt_u32(n, 128) THEN Append(dest, n[2])
    ELSE IF shr7(n) = u32(0) THEN Append(dest, 128 + (n[2] % 128))
    ELSE encode_loop(shr7(n), Append(dest, 128 + (n[2] % 128)))

\* encode_integer(n, prefix, dest) for a dest with room for the encoding: the
\* octets dest[..size] it writes (size, the value returned, is their number)
encode_integer(n, prefix) ==
    IF lt_u32(n, Pow2(prefix) - 1) THEN <<n[2]>>
    ELSE encode_loop(sub_u32(n, Pow2(prefix) - 1), <<Pow2(prefix) - 1>>)

---------------------------------------------------------------------------
(* header/hpack/huffman.rs: Huffman::encode *)

RECURSIVE BitOr(_, _)
BitOr(a, b) ==
    IF a = 0 THEN b
    ELSE IF b = 0 THEN a
    ELSE (IF a % 2 = 1 \/ b % 2 = 1 THEN 1 ELSE 0) + 2 * BitOr(a \div 2, b \div 2)

\* the bits of a code, most significant first, and the octet of 8 bits
CodeBits(code, len) == [k \in 1..len |-> (code \div Pow2(len - k)) % 2]

Zeros(n) == [k \in 1..n |-> 0]

RECURSIVE FromBits(_)
FromBits(bits) ==
    IF bits = <<>> THEN 0
    ELSE 2 * FromBits(SubSeq(bits, 1, Len(bits) - 1)) + bits[Len(bits)]

OctetsOf(bits) == [j \in 1..4 |-> FromBits(SubSeq(bits, 8 * j - 7, 8 * j))]

\* code_buf: the 4 octets of u32::to_be(code << shift), shift = 32 - code_len
\* - offset, for a shift that is not negative
code_buf(encodeing, offset) ==
    OctetsOf(Zeros(offset) \o CodeBits(encodeing[1], encodeing[2])
             \o Zeros(32 - encodeing[2] - offset))

\* the state of encode between two octets of src
Enc(dest, dest_i, offset) ==
    [st |-> "ok", dest |-> dest, dest_i |-> dest_i, offset |-> offset]

\* a call that returns v, and one that aborts (panics)
Returned(v) == [st |-> "ok", val |-> v]

Aborted(msg) == [st |-> "panic", val |-> msg]

\* dest[dest_i] = octet and dest[dest_i] |= octet (dest_i counts from 0)
store(dest, dest_i, octet) == [dest EXCEPT ![dest_i + 1] = octet]

store_or(dest, dest_i, octet) ==
    [dest EXCEPT ![dest_i + 1] = BitOr(dest[dest_i + 1], octet)]

\* the loop that writes each part of the code to dest
RECURSIVE write_code(_, _, _, _, _)
write_code(dest, dest_i, buf, code_i, code_len) ==
    IF dest_i >= Len(dest) THEN Aborted("index out of bounds: dest")
    ELSE IF code_i >= 4 THEN Aborted("index out of bounds: code_buf")
    ELSE IF code_len - 8 > 0
    THEN write_code(store(dest, dest_i, buf[code_i + 1]), dest_i + 1, buf,
                    code_i + 1, code_len - 8)
    ELSE IF code_len - 8 = 0
    THEN Enc(store(dest, dest_i, buf[code_i + 1]), dest_i + 1, 0)
    ELSE Enc(store(dest, dest_i, buf[code_i + 1]), dest_i, code_len)

\* the body of `for i in src` for a code that starts inside dest[dest_i]
encode_partial(dest, dest_i, offset, buf, code_len) ==
    IF dest_i >= Len(dest) THEN Aborted("index out of bounds: dest")
    ELSE IF code_len + offset < 8
    THEN Enc(store_or(dest, dest_i, buf[1]), dest_i, code_len + offset)
    ELSE IF code_len - (8 - offset) <= 0
    THEN Enc(store_or(dest, dest_i, buf[1]), dest_i + 1,
             code_len - (8 - offset))
    ELSE write_code(store_or(dest, dest_i, buf[1]), dest_i + 1, buf, 1,
                    code_len - (8 - offset))

\* the body of `for i in src`.  A code that does not fit the 32 bits after
\* the offset makes the shift negative: a build with overflow checks aborts
\* there, one without shifts by the low 5 bits and runs off code_buf.
encode_octet(e, i) ==
    IF HUFFMAN_TABLE[i + 1][2] + e.offset > 32
    THEN Aborted("shift overflow or index out of bounds: code_buf")
    ELSE IF e.offset > 0
    THEN encode_partial(e.dest, e.dest_i, e.offset,
                        code_buf(HUFFMAN_TABLE[i + 1], e.offset),
                        HUFFMAN_TABLE[i + 1][2])
    ELSE write_code(e.dest, e.dest_i, code_buf(HUFFMAN_TABLE[i + 1], 0), 0,
                    HUFFMAN_TABLE[i + 1][2])

RECURSIVE encode_src(_, _)
encode_src(src, e) ==
    IF src = <<>> \/ e.st # "ok" THEN e
    ELSE encode_src(Tail(src), encode_octet(e, Head(src)))

\* the 1's that pad the last octet of dest, and the value returned
encode_end(e) ==
    IF e.st # "ok" THEN e
    ELSE IF e.offset = 0
    THEN [st |-> "ok", val |-> e.dest_i + 1, dest |-> e.dest]
    ELSE IF e.dest_i >= Len(e.dest) THEN Aborted("index out of bounds: dest")
    ELSE [st |-> "ok", val |-> e.dest_i + 1,
          dest |-> store_or(e.dest, e.dest_i, Pow2(8 - e.offset) - 1)]

\* Huffman::encode(src, dest): the length returned and dest afterwards
encode(src, dest) == encode_end(encode_src(src, Enc(dest, 0, 0)))

---------------------------------------------------------------------------
(* borrow_iter/take.rs *)

Min(a, b) == IF a < b THEN a ELSE b

\* the items a BTake over `octets` yields, and what it leaves in the parent
borrow_take(octets, take) == SubSeq(octets, 1, Min(take, Len(octets)))
after_take(octets, take) == SubSeq(octets, Min(take, Len(octets)) + 1, Len(octets))

---------------------------------------------------------------------------
(* header/hpack/decoder.rs *)

\* the string of `length` octets that follows its length in the iterator
string_of(is_huffman, length) ==
    IF length.st # "ok" THEN length
    ELSE Done(IF is_huffman
              THEN huffman_decode(borrow_take(length.rest, as_usize(length.val)))
              ELSE borrow_take(length.rest, as_usize(length.val)),
              after_take(length.rest, as_usize(length.val)))

consume_literal(octets, dbg) ==
    IF octets = <<>> THEN Panic("unwrap of None in consume_literal")
    ELSE string_of(BitAnd(Head(octets), 128) = 128,
                   decode_integer(octets, 7, dbg))

\* the outcome of decoding one representation: the step result (val is the
\* HeaderEntry) and the table afterwards
Outcome(r, t) == [st |-> r.st, val |-> r.val, rest |-> r.rest, table |-> t]

indexed_header(t, octets, dbg) ==
    LET index == decode_integer(octets, 7, dbg)
    IN  IF index.st # "ok" THEN Outcome(index, t)
        ELSE LET entry == get_header_entry(t, as_usize(index.val))
             IN  IF ~entry.ok THEN Outcome(Fail(entry.err, index.rest), t)
                 ELSE Outcome(Done(entry.val, index.rest), t)

get_dyn_front(t, rest) ==
    IF num_dyn_entries(t) > 0 THEN Done(IntoHeaderEntry(t.dyn_table[1]), rest)
    ELSE Panic("get_dyn_front on an empty dyn_table")

literal_header(t, octets, dbg) ==
    LET index == decode_integer(octets, 6, dbg)
    IN  IF index.st # "ok" THEN Outcome(index, t)
        ELSE IF index.val = u32(0)
        THEN LET name == consume_literal(index.rest, dbg)
             IN  IF name.st # "ok" THEN Outcome(name, t)
                 ELSE LET value == consume_literal(name.rest, dbg)
                      IN  IF value.st # "ok" THEN Outcome(value, t)
                          ELSE LET t1 == add_entry_literal(t, name.val, value.val)
                               IN  Outcome(get_dyn_front(t1, value.rest), t1)
        ELSE LET value == consume_literal(index.rest, dbg)
             IN  IF value.st # "ok" THEN Outcome(value, t)
                 ELSE LET added == add_entry_id(t, as_usize(index.val), value.val)
                      IN  IF ~added.result.ok
                          THEN Outcome(Fail(added.result.err, value.rest), added.table)
                          ELSE Outcome(get_dyn_front(added.table, value.rest),
                                       added.table)

\* mutant: the field is also inserted into the dynamic table
literal_header_never_indexed_adds(t, octets, dbg) ==
    LET index == decode_integer(octets, 4, dbg)
    IN  IF index.st # "ok" THEN Outcome(index, t)
        ELSE IF index.val = u32(0)
        THEN LET name == consume_literal(index.rest, dbg)
             IN  IF name.st # "ok" THEN Outcome(name, t)
                 ELSE LET value == consume_literal(name.rest, dbg)
                      IN  IF value.st # "ok" THEN Outcome(value, t)
                          ELSE Outcome(Done(HeaderEntry(name.val, value.val),
                                            value.rest),
                                       add_entry_literal(t, name.val, value.val))
        ELSE LET name_rc == get_name_rc(t, as_usize(index.val))
             IN  IF ~name_rc.ok THEN Outcome(Fail(name_rc.err, index.rest), t)
                 ELSE LET value == consume_literal(index.rest, dbg)
                      IN  IF value.st # "ok" THEN Outcome(value, t)
                          ELSE Outcome(Done(HeaderEntry(name_rc.val, value.val),
                                            value.rest),
                                       add(t, TableEntry(name_rc.val, value.val)))

literal_header_never_indexed(t, octets, dbg) ==
    LET index == decode_integer(octets, 4, dbg)
    IN  IF index.st # "ok" THEN Outcome(index, t)
        ELSE IF index.val = u32(0)
        THEN LET name == consume_literal(index.rest, dbg)
             IN  IF name.st # "ok" THEN Outcome(name, t)
                 ELSE LET value == consume_literal(name.rest, dbg)
                      IN  IF value.st # "ok" THEN Outcome(value, t)
                          ELSE Outcome(Done(HeaderEntry(name.val, value.val),
                                            value.rest), t)
        ELSE LET name_rc == get_name_rc(t, as_usize(index.val))
             IN  IF ~name_rc.ok THEN Outcome(Fail(name_rc.err, index.rest), t)
                 ELSE LET value == consume_literal(index.rest, dbg)
                      IN  IF value.st # "ok" THEN Outcome(value, t)
                          ELSE Outcome(Done(HeaderEntry(name_rc.val, value.val),
                                            value.rest), t)

literal_header_unindexed(t, octets, dbg) ==
    literal_header_never_indexed(t, octets, dbg)

size_update(t, octets, dbg) ==
    LET size == decode_integer(octets, 5, dbg)
    IN  IF size.st # "ok" THEN Outcome(size, t)
        ELSE Outcome(Done(<<>>, size.rest),
                     max_size_update(t, as_usize(size.val)))

\* the match of get_header_list on the first octet of a representation
representation(val) ==
    IF BitAnd(val, 128) = 128 THEN "indexed_header"
    ELSE IF BitAnd(val, 192) = 64 THEN "literal_header"
    ELSE IF BitAnd(val, 240) = 0 THEN "literal_header_unindexed"
    ELSE IF BitAnd(val, 240) = 16 THEN "literal_header_never_indexed"
    ELSE IF BitAnd(val, 224) = 32 THEN "size_update"
    ELSE "Unrecognized block type"

\* mutant: the entry is put at the head of the list
add_entry_front(list, entry) == <<entry>> \o list

\* HeaderList::add_entry
add_entry(list, entry) == Append(list, entry)

\* mutant: the last entry of the name is returned
RECURSIVE get_value_by_name_last(_, _)
get_value_by_name_last(list, name) ==
    IF list = <<>> THEN None
    ELSE IF list[Len(list)].name = name THEN Some(list[Len(list)].value)
    ELSE get_value_by_name_last(SubSeq(list, 1, Len(list) - 1), name)

\* HeaderList::get_value_by_name: the loop over &self.0
RECURSIVE get_value_by_name(_, _)
get_value_by_name(list, name) ==
    IF list = <<>> THEN None
    ELSE IF Head(list).name = name THEN Some(Head(list).value)
    ELSE get_value_by_name(Tail(list), name)

\* HeaderList::iter: the entries in the order of the Vec
iter(list) == list

\* the arm of the match in get_header_list that takes a representation
decode_representation(kind, t, octets, dbg) ==
    CASE kind = "indexed_header" -> indexed_header(t, octets, dbg)
      [] kind = "literal_header" -> literal_header(t, octets, dbg)
      [] kind = "literal_header_unindexed" ->
             literal_header_unindexed(t, octets, dbg)
      [] kind = "literal_header_never_indexed" ->
             literal_header_never_indexed(t, octets, dbg)
      [] OTHER -> size_update(t, octets, dbg)

\* the loop `while bts.peek().is_some()` of get_header_list run to its end:
\* the Result returned (or the abort) and the table the Decoder is left with
RECURSIVE header_loop(_, _, _, _)

\* try!(..) on the outcome o of a representation, then the next turn
next_turn(kind, o, list, dbg) ==
    IF o.st # "ok" THEN [st |-> o.st, val |-> o.val, table |-> o.table]
    ELSE header_loop(o.table, o.rest,
                     IF kind = "size_update" THEN list
                     ELSE add_entry(list, o.val), dbg)

header_loop(t, octets, list, dbg) ==
    IF octets = <<>> THEN [st |-> "ok", val |-> list, table |-> t]
    ELSE IF representation(Head(octets)) = "Unrecognized block type"
    THEN [st |-> "err", val |-> "Unrecognized block type", table |-> t]
    ELSE next_turn(representation(Head(octets)),
                   decode_representation(representation(Head(octets)), t, octets,
                                         dbg),
                   list, dbg)

\* mutant: every block is decoded against an empty dynamic table
get_header_list_fresh(t, hpack_block, dbg) ==
    header_loop(new(t.max_size), hpack_block, <<>>, dbg)

\* Decoder::get_header_list on a Decoder whose table is t
get_header_list(t, hpack_block, dbg) ==
    header_loop(t, hpack_block, <<>>, dbg)

---------------------------------------------------------------------------
(* The Table API called directly, as its unit tests do (SpecTable) *)

RECURSIVE SumSizes(_)
SumSizes(s) == IF s = <<>> THEN 0 ELSE size_of_entry(Head(s)) + SumSizes(Tail(s))

NameChoices == SeqsUpTo({110}, MaxNameLen)
ValueChoices == SeqsUpTo({118}, MaxValueLen)
IdChoices == {0, 1, 62, 63}
SizeChoices == {0, 33, 70, MaxSize}

NoCall == [op |-> "new", pre |-> new(0), entry |-> <<>>, ok |-> TRUE]
NoPure == [fn |-> "none"]
NoFrame == [st |-> "none"]

TableIdle ==
    /\ table = new(0)
    /\ call = NoCall

DecoderIdle ==
    /\ block = <<>>
    /\ bts = <<>>
    /\ header_list = <<>>
    /\ pc = "idle"
    /\ reps = <<>>
    /\ inserted = <<>>
    /\ init_max_size = 0
    /\ budget = 0
    /\ pure = NoPure
    /\ frame = NoFrame

DecoderUnchanged ==
    UNCHANGED <<block, bts, header_list, pc, reps, inserted,
                init_max_size, budget, pure, frame>>

InitTable ==
    /\ \E max_size \in SizeChoices : table = new(max_size)
    /\ call = NoCall
    /\ DecoderIdle

TableAddEntryLiteral(name, value) ==
    /\ table' = add_entry_literal(table, name, value)
    /\ call' = [op |-> "add_entry_literal", pre |-> table,
                entry |-> TableEntry(name, value), ok |-> TRUE]
    /\ DecoderUnchanged

TableAddEntryId(name_id, value) ==
    LET r == add_entry_id(table, name_id, value)
        named == get_entry(table, name_id)
    IN  /\ table' = r.table
        /\ call' = [op |-> "add_entry_id", pre |-> table,
                    entry |-> IF named.ok THEN TableEntry(named.val[1], value)
                              ELSE <<>>,
                    ok |-> r.result.ok, name_id |-> name_id]
        /\ DecoderUnchanged

TableMaxSizeUpdate(new_max_size) ==
    /\ table' = max_size_update(table, new_max_size)
    /\ call' = [op |-> "max_size_update", pre |-> table, entry |-> <<>>,
                ok |-> TRUE]
    /\ DecoderUnchanged

NextTable ==
    \/ \E name \in NameChoices, value \in ValueChoices :
           TableAddEntryLiteral(name, value)
    \/ \E name_id \in IdChoices, value \in ValueChoices :
           TableAddEntryId(name_id, value)
    \/ \E new_max_size \in SizeChoices : TableMaxSizeUpdate(new_max_size)

SpecTable == InitTable /\ [][NextTable]_vars

---------------------------------------------------------------------------
(* A HeaderList filled through add_entry, as test_list_iter does (SpecList) *)

\* entries added to one list
MaxEntries == 4

\* the names and values of the entries added, and a name that is never added
ListNames == {<<110>>, <<111>>}
ListValues == {<<118>>, <<119>>}
QueryNames == ListNames \cup {<<112>>}

\* HeaderList::with_capacity
InitList ==
    /\ TableIdle
    /\ DecoderIdle

ListAddEntry(name, value) ==
    /\ Len(header_list) < MaxEntries
    /\ header_list' = add_entry(header_list, HeaderEntry(name, value))
    /\ call' = [op |-> "add_entry", pre |-> header_list,
                entry |-> HeaderEntry(name, value), ok |-> TRUE]
    /\ UNCHANGED <<table, block, bts, pc, reps, inserted, init_max_size,
                   budget, pure, frame>>

NextList == \E name \in ListNames, value \in ListValues : ListAddEntry(name, value)

SpecList == InitList /\ [][NextList]_vars

---------------------------------------------------------------------------
(* The Decoder fed header blocks (Spec) *)

\* the octets the header blocks are made of:
\*   0x00 literal without indexing, new name / an empty string / integer end
\*   0x01 literal without indexing, name 1    / a string of one octet
\*   0x10 literal never indexed, new name
\*   0x20 size update to 0
\*   0x3F size update, continued              / a string of 63 octets
\*   0x42 literal with indexing, name 2       / "B"
\*   0x7E literal with indexing, name 62      / a string of 126 octets
\*   0x80 indexed, index 0                    / an empty Huffman string
\*   0x82 indexed, index 2                    / a Huffman string of 2 octets
\*   0xBE indexed, index 62
Octets == {0, 1, 16, 32, 63, 66, 126, 128, 130, 190}

\* the max_size a Decoder is created with
DecoderSizes == {75}

Blocks(n) == SeqsUpTo(Octets, n)

Init ==
    /\ \E max_size \in DecoderSizes :
           /\ table = new(max_size)
           /\ init_max_size = max_size
    /\ call = NoCall
    /\ block = <<>>
    /\ bts = <<>>
    /\ header_list = <<>>
    /\ pc = "idle"
    /\ reps = <<>>
    /\ inserted = <<>>
    /\ budget = MaxOctets
    /\ pure = NoPure
    /\ frame = NoFrame

\* get_header_list is entered: the iterator stands at the start of the block.
\* A connection ends at its first decoding error, so no block follows one (the
\* table an error leaves is the table after the representations before it).
GetHeaderList(hpack_block) ==
    /\ pc \in {"idle", "ok"}
    /\ Len(hpack_block) <= budget
    /\ budget' = budget - Len(hpack_block)
    /\ block' = hpack_block
    /\ bts' = hpack_block
    /\ header_list' = <<>>
    /\ reps' = <<>>
    /\ pc' = "loop"
    /\ UNCHANGED <<table, call, inserted, init_max_size, pure, frame>>

\* the integer a representation of the given kind starts with
PrefixSize(kind) ==
    CASE kind = "indexed_header" -> 7
      [] kind = "literal_header" -> 6
      [] kind = "size_update" -> 5
      [] OTHER -> 4

\* RFC 7541 6.2: the header field a literal representation at the head of
\* `octets` stands for (an index with the given prefix, then the name unless
\* indexed, then the value)
field_of(t, octets, prefix) ==
    LET index == decode_integer(octets, prefix, FALSE)
    IN  IF index.st # "ok" THEN index
        ELSE IF index.val = u32(0)
        THEN LET name == consume_literal(index.rest, FALSE)
             IN  IF name.st # "ok" THEN name
                 ELSE LET value == consume_literal(name.rest, FALSE)
                      IN  IF value.st # "ok" THEN value
                          ELSE Done(HeaderEntry(name.val, value.val), value.rest)
        ELSE LET name == get_name_rc(t, as_usize(index.val))
                 value == consume_literal(index.rest, FALSE)
             IN  IF value.st # "ok" THEN value
                 ELSE IF ~name.ok THEN Fail(name.err, value.rest)
                 ELSE Done(HeaderEntry(name.val, value.val), value.rest)

\* the table entry of the literal-with-indexing representation at the head of
\* `octets`, and whether the dynamic table has room for it
FieldEntry(t, octets) ==
    LET f == field_of(t, octets, 6).val IN TableEntry(f.name, f.value)

Fits(t, octets) ==
    /\ field_of(t, octets, 6).st = "ok"
    /\ size_of_entry(FieldEntry(t, octets)) <= t.max_size

\* history: the entries pushed so far, once the field f met a table t
Pushed(ins, t, f) ==
    IF f.st # "ok" THEN ins
    ELSE IF size_of_entry(TableEntry(f.val.name, f.val.value)) > t.max_size
    THEN ins
    ELSE Append(ins, TableEntry(f.val.name, f.val.value))

\* one turn of the loop of get_header_list: the representation `kind` at the
\* head of the iterator is decoded with outcome o
Turn(kind, o) ==
    /\ pc = "loop"
    /\ bts # <<>>
    /\ representation(Head(bts)) = kind
    /\ table' = o.table
    /\ reps' = Append(reps, [kind |-> kind, st |-> o.st, val |-> o.val,
                             pre |-> table, from |-> bts, rest |-> o.rest,
                             int |-> decode_integer(bts, PrefixSize(kind), FALSE)])
    /\ inserted' = IF kind = "literal_header"
                   THEN Pushed(inserted, table, field_of(table, bts, 6))
                   ELSE inserted
    /\ IF o.st = "ok"
       THEN /\ bts' = o.rest
            /\ header_list' = IF kind = "size_update" THEN header_list
                              ELSE add_entry(header_list, o.val)
            /\ pc' = "loop"
       ELSE /\ bts' = <<>>
            /\ header_list' = <<>>
            /\ pc' = o.st
    /\ UNCHANGED <<call, block, init_max_size, budget, pure, frame>>

\* dbg: whether the build checks arithmetic overflow (it aborts) or wraps
IndexedHeader ==
    \E dbg \in BOOLEAN :
        Turn("indexed_header", indexed_header(table, bts, dbg))

LiteralHeader ==
    \E dbg \in BOOLEAN :
        Turn("literal_header", literal_header(table, bts, dbg))

LiteralHeaderUnindexed ==
    \E dbg \in BOOLEAN :
        Turn("literal_header_unindexed",
             literal_header_unindexed(table, bts, dbg))

LiteralHeaderNeverIndexed ==
    \E dbg \in BOOLEAN :
        Turn("literal_header_never_indexed",
             literal_header_never_indexed(table, bts, dbg))

SizeUpdate ==
    \E dbg \in BOOLEAN : Turn("size_update", size_update(table, bts, dbg))

\* the loop ends: Ok(header_list) when the iterator is exhausted, Err on an
\* octet no arm of the match takes (there is none: the arms cover 0..255)
Return ==
    /\ pc = "loop"
    /\ IF bts = <<>> THEN TRUE
       ELSE representation(Head(bts)) = "Unrecognized block type"
    /\ pc' = IF bts = <<>> THEN "ok" ELSE "err"
    /\ header_list' = IF bts = <<>> THEN header_list ELSE <<>>
    /\ bts' = <<>>
    /\ UNCHANGED <<table, call, block, reps, inserted, init_max_size, budget,
                   pure, frame>>

Next ==
    \/ \E hpack_block \in Blocks(budget) : GetHeaderList(hpack_block)
    \/ IndexedHeader
    \/ LiteralHeader
    \/ LiteralHeaderUnindexed
    \/ LiteralHeaderNeverIndexed
    \/ SizeUpdate
    \/ Return

Spec == Init /\ [][Next]_vars

---------------------------------------------------------------------------
(* Two header blocks decoded by one Decoder, and their concatenation *)
(* decoded by another (SpecBlocks)                                   *)

\* octets of one block
MaxBlockLen == 2

\* the octets the two blocks are made of:
\*   0x00 literal without indexing, new name / an empty string
\*   0x01 literal without indexing, name 1    / a string of one octet
\*   0x20 size update to 0                    / a string of 32 octets
\*   0x42 literal with indexing, name 2
\*   0x7E literal with indexing, name 62
\*   0xBE indexed, index 62
BlockOctets == {0, 1, 32, 66, 126, 190}

InitBlocks ==
    /\ TableIdle
    /\ DecoderIdle

\* get_header_list(a) then get_header_list(b) on one Decoder, and
\* get_header_list(a followed by b) on a Decoder constructed alike
GetHeaderListTwice ==
    /\ pure = NoPure
    /\ \E a \in SeqsUpTo(BlockOctets, MaxBlockLen),
          b \in SeqsUpTo(BlockOctets, MaxBlockLen),
          max_size \in DecoderSizes, dbg \in BOOLEAN :
           /\ pure' = [fn |-> "get_header_list", a |-> a, b |-> b,
                       dbg |-> dbg,
                       first |-> get_header_list(new(max_size), a, dbg),
                       second |->
                           get_header_list(
                               get_header_list(new(max_size), a, dbg).table,
                               b, dbg),
                       whole |-> get_header_list(new(max_size), a \o b, dbg)]
           /\ UNCHANGED <<table, call, block, bts, header_list, pc, reps,
                          inserted, init_max_size, budget, frame>>

NextBlocks == GetHeaderListTwice

SpecBlocks == InitBlocks /\ [][NextBlocks]_vars

---------------------------------------------------------------------------
(* frame/mod.rs: the views of Http2Frame over the buffer of a frame *)

get_length(buf) ==
    IF Len(buf) < 3 THEN Aborted("index out of bounds")
    ELSE Returned(buf[1] * 65536 + buf[2] * 256 + buf[3])

payload(buf) ==
    IF Len(buf) < 9 THEN Aborted("slice index starts past the end")
    ELSE Returned(SubSeq(buf, 10, Len(buf)))

get_type(buf) ==
    IF Len(buf) < 4 THEN Aborted("index out of bounds")
    ELSE Returned(buf[4])

get_flags(buf) ==
    IF Len(buf) < 5 THEN Aborted("index out of bounds")
    ELSE Returned(buf[5])

\* the stream identifier, a u32: [buf[5] & 0x7F, buf[6], buf[7], buf[8]]
get_s_identifier(buf) ==
    IF Len(buf) < 9 THEN Aborted("index out of bounds")
    ELSE Returned(<<BitAnd(buf[6], 127) * 256 + buf[7], buf[8] * 256 + buf[9]>>)

\* buf[i] = v on a write in progress w = [st, buf] (i counts from 0)
put(w, i, v) ==
    IF w.st # "ok" THEN w
    ELSE IF i >= Len(w.buf) THEN [st |-> "panic", buf |-> w.buf]
    ELSE [st |-> "ok", buf |-> [w.buf EXCEPT ![i + 1] = v]]

\* the j-th octet of x.to_be(), for a u32 x
to_be(x, j) ==
    CASE j = 0 -> x[1] \div 256
      [] j = 1 -> x[1] % 256
      [] j = 2 -> x[2] \div 256
      [] OTHER -> x[2] % 256

\* debug_assert_eq!: checked when the build has debug assertions (dbg)
debug_assert(dbg, cond, buf) ==
    [st |-> IF dbg /\ ~cond THEN "panic" ELSE "ok", buf |-> buf]

set_length(buf, len, dbg) ==
    put(put(put(debug_assert(dbg, to_be(len, 0) = 0, buf),
                0, to_be(len, 1)), 1, to_be(len, 2)), 2, to_be(len, 3))

\* mutant of set_type: the octet of the flags is written
set_type_at_flags(buf, f_type) ==
    put([st |-> "ok", buf |-> buf], 4, f_type)

set_type(buf, f_type) ==
    put([st |-> "ok", buf |-> buf], 3, f_type)

set_flags(buf, f_flags) ==
    put([st |-> "ok", buf |-> buf], 4, f_flags)

set_s_identifier(buf, s_identifier, dbg) ==
    put(put(put(put(debug_assert(dbg, to_be(s_identifier, 0) < 128, buf),
                    5, to_be(s_identifier, 0)), 6, to_be(s_identifier, 1)),
            7, to_be(s_identifier, 2)), 8, to_be(s_identifier, 3))

---------------------------------------------------------------------------
(* frame/frame_types.rs: the views of the frame types over the payload *)

PADDED == 8
PRIORITY == 32

\* r[i], &r[a..b] and &r[a..] on the slice a call returned (r is the
\* Returned or Aborted of that call): an index past the end, an end before
\* the start or past the end of the slice abort
at(r, i) ==
    IF r.st # "ok" THEN r
    ELSE IF i >= Len(r.val) THEN Aborted("index out of bounds")
    ELSE Returned(r.val[i + 1])

range(r, a, b) ==
    IF r.st # "ok" THEN r
    ELSE IF a > b THEN Aborted("slice index starts past its end")
    ELSE IF b > Len(r.val) THEN Aborted("range end index out of range")
    ELSE Returned(SubSeq(r.val, a + 1, b))

from(r, a) ==
    IF r.st # "ok" THEN r
    ELSE IF a > Len(r.val) THEN Aborted("range start index out of range")
    ELSE Returned(SubSeq(r.val, a + 1, Len(r.val)))

\* getu32_from_be: four octets are copied from the start of buf, whatever
\* its length.  A build with debug assertions aborts on another length; one
\* without reads the octets `behind` the end of a shorter buf.
getu32_from_be(buf, dbg, behind) ==
    IF dbg /\ Len(buf) # 4 THEN Aborted("assertion failed: buf.len() == 4")
    ELSE Returned(<<(buf \o behind)[1] * 256 + (buf \o behind)[2],
                    (buf \o behind)[3] * 256 + (buf \o behind)[4]>>)

getu16_from_be(buf, dbg, behind) ==
    IF dbg /\ Len(buf) # 2 THEN Aborted("assertion failed: buf.len() == 2")
    ELSE Returned((buf \o behind)[1] * 256 + (buf \o behind)[2])

\* x & 0x7FFFFFFF and x & 0x80000000 != 0 on a u32 x
low31(x) == <<x[1] % 32768, x[2]>>
top_bit(x) == x[1] >= 32768

\* HeadersFrame::pad_prio_flags, on the octet get_flags returned
pad_prio_flags(flags) ==
    CASE BitAnd(flags, PADDED + PRIORITY) = 0 -> "Neither"
      [] BitAnd(flags, PADDED + PRIORITY) = PADDED -> "PaddedOnly"
      [] BitAnd(flags, PADDED + PRIORITY) = PRIORITY -> "PriorityOnly"
      [] OTHER -> "Both"

some(r) == IF r.st # "ok" THEN r ELSE Returned(Some(r.val))

get_pad_length(buf) ==
    IF Len(buf) < 5 THEN Aborted("index out of bounds")
    ELSE IF pad_prio_flags(buf[5]) \in {"PaddedOnly", "Both"}
    THEN some(at(payload(buf), 0))
    ELSE Returned(None)

\* (exclusive, stream_dep & 0x7FFFFFFF, weight) of the five octets r
priority_info(r) ==
    IF r.st # "ok" THEN r
    ELSE Returned(<<top_bit(getu32_from_be(SubSeq(r.val, 1, 4), TRUE, <<>>).val),
                    low31(getu32_from_be(SubSeq(r.val, 1, 4), TRUE, <<>>).val),
                    r.val[5]>>)

get_priority_info(buf) ==
    IF Len(buf) < 5 THEN Aborted("index out of bounds")
    ELSE IF pad_prio_flags(buf[5]) = "PriorityOnly"
    THEN some(priority_info(range(payload(buf), 0, 5)))
    ELSE IF pad_prio_flags(buf[5]) = "Both"
    THEN some(priority_info(range(payload(buf), 1, 6)))
    ELSE Returned(None)

get_header_block_fragment(buf) ==
    IF Len(buf) < 5 THEN Aborted("index out of bounds")
    ELSE from(payload(buf),
              CASE pad_prio_flags(buf[5]) = "Neither" -> 0
                [] pad_prio_flags(buf[5]) = "PaddedOnly" -> 1
                [] pad_prio_flags(buf[5]) = "PriorityOnly" -> 5
                [] OTHER -> 6)

\* DataFrame::padded and PushPromiseFrame::padded, on the flags octet
padded(flags) == BitAnd(flags, PADDED) # 0

\* len - padding on usize: below 0 it aborts a build with overflow checks and
\* wraps in one without, to an end far past every slice
sub_usize(len, padding, dbg) ==
    IF padding <= len THEN Returned(len - padding)
    ELSE IF dbg THEN Aborted("attempt to subtract with overflow")
    ELSE Returned(2147483647)

\* the true arm of get_data, on the payload p
padded_data(p, dbg) ==
    IF at(p, 0).st # "ok" THEN at(p, 0)
    ELSE IF sub_usize(Len(p.val), p.val[1], dbg).st # "ok"
    THEN sub_usize(Len(p.val), p.val[1], dbg)
    ELSE range(p, 1, sub_usize(Len(p.val), p.val[1], dbg).val)

get_data(buf, dbg) ==
    IF Len(buf) < 5 THEN Aborted("index out of bounds")
    ELSE IF padded(buf[5]) THEN padded_data(payload(buf), dbg)
    ELSE from(payload(buf), 0)

\* get_push_data once (padding, buf) are bound: p is the payload, b the
\* slice the identifier is read from
push_data(p, b, padding, dbg) ==
    IF range(b, 0, 4).st # "ok" THEN range(b, 0, 4)
    ELSE IF sub_usize(Len(b.val), padding, dbg).st # "ok"
    THEN sub_usize(Len(b.val), padding, dbg)
    ELSE IF range(p, 4, sub_usize(Len(b.val), padding, dbg).val).st # "ok"
    THEN range(p, 4, sub_usize(Len(b.val), padding, dbg).val)
    ELSE Returned(<<low31(getu32_from_be(range(b, 0, 4).val, TRUE, <<>>).val),
                    range(p, 4, sub_usize(Len(b.val), padding, dbg).val).val>>)

get_push_data(buf, dbg) ==
    IF Len(buf) < 5 THEN Aborted("index out of bounds")
    ELSE IF ~padded(buf[5])
    THEN push_data(payload(buf), from(payload(buf), 0), 0, dbg)
    ELSE IF at(payload(buf), 0).st # "ok" THEN at(payload(buf), 0)
    ELSE push_data(payload(buf), from(payload(buf), 1),
                   at(payload(buf), 0).val, dbg)

\* SettingParam { id, value } read at offset n of the payload p
SettingParam(p, n) ==
    [id |-> getu16_from_be(SubSeq(p, n + 1, n + 2), TRUE, <<>>).val,
     value |-> getu32_from_be(SubSeq(p, n + 3, n + 6), TRUE, <<>>).val]

\* the loop `for i in 0..num_params` over the payload p
settings_loop(p, num_params) ==
    IF p.st # "ok" THEN p
    ELSE IF num_params > 0 /\ range(p, 0, 6 * num_params).st # "ok"
    THEN range(p, 0, 6 * num_params)
    ELSE Returned([i \in 1..num_params |-> SettingParam(p.val, 6 * (i - 1))])

get_settings_paramaters(buf, dbg) ==
    IF get_length(buf).st # "ok" THEN get_length(buf)
    ELSE IF dbg /\ get_length(buf).val % 6 # 0
    THEN Aborted("assertion failed: length % 6 == 0")
    ELSE settings_loop(payload(buf), get_length(buf).val \div 6)

window_update(p, dbg, behind) ==
    IF p.st # "ok" THEN p ELSE getu32_from_be(p.val, dbg, behind)

get_window_update(buf, dbg, behind) ==
    window_update(payload(buf), dbg, behind)

---------------------------------------------------------------------------
(* A frame view written through its setters, as write_frame_test does *)
(* (SpecFrame)                                                        *)

\* the buffers a view is pointed to: the ten zero octets of write_frame_test,
\* TST_FRAME with the reserved bit set, a header without payload, eleven
\* octets of all ones, and a buffer shorter than a header
ViewBuffers ==
    {<<0, 0, 0, 0, 0, 0, 0, 0, 0, 0>>,
     <<0, 0, 238, 1, 37, 128, 0, 0, 1, 128>>,
     <<0, 0, 0, 0, 0, 0, 0, 0, 0>>,
     <<255, 255, 255, 255, 255, 255, 255, 255, 255, 255, 255>>,
     <<0, 0, 0, 0>>}

\* the values written: both ends of each field and the first value past it
Lengths == {u32(0), u32(238), <<255, 65535>>, <<256, 0>>}
Types == {1, 9}
Flags == {0, 37}
SIdentifiers == {u32(0), u32(1), <<32767, 65535>>, <<32768, 1>>}

\* GenericFrame::point_to
point_to(buf) ==
    [st |-> "ok", buf |-> buf, init |-> buf, set |-> {},
     last |-> [length |-> u32(0), type |-> 0, flags |-> 0,
               s_identifier |-> u32(0)]]

InitFrame ==
    /\ TableIdle
    /\ block = <<>>
    /\ bts = <<>>
    /\ header_list = <<>>
    /\ pc = "idle"
    /\ reps = <<>>
    /\ inserted = <<>>
    /\ init_max_size = 0
    /\ budget = 0
    /\ pure = NoPure
    /\ \E buf \in ViewBuffers : frame = point_to(buf)

\* a setter is called on the view: w is the write it made, field the field it
\* belongs to and v the value handed to it
Written(w, field, v) ==
    /\ frame.st = "ok"
    /\ frame' = [frame EXCEPT !.st = w.st, !.buf = w.buf,
                              !.set = @ \cup {field}, !.last[field] = v]
    /\ UNCHANGED <<table, call, block, bts, header_list, pc, reps, inserted,
                   init_max_size, budget, pure>>

SetLength ==
    \E len \in Lengths, dbg \in BOOLEAN :
        Written(set_length(frame.buf, len, dbg), "length", len)

SetType ==
    \E f_type \in Types : Written(set_type(frame.buf, f_type), "type", f_type)

SetFlags ==
    \E f_flags \in Flags :
        Written(set_flags(frame.buf, f_flags), "flags", f_flags)

SetSIdentifier ==
    \E s_identifier \in SIdentifiers, dbg \in BOOLEAN :
        Written(set_s_identifier(frame.buf, s_identifier, dbg),
                "s_identifier", s_identifier)

NextFrame ==
    \/ SetLength
    \/ SetType
    \/ SetFlags
    \/ SetSIdentifier

SpecFrame == InitFrame /\ [][NextFrame]_vars

---------------------------------------------------------------------------
(* The codecs and the frame views called on their own, as the unit tests *)
(* do (SpecPure)                                                         *)

\* octets of the integers handed to decode_integer: a terminating octet, a
\* continuation octet without value bits and the octet of all ones
IntOctets == {1, 128, 255}
MaxIntOctets == 7
PrefixSizes == {0, 5, 8, 9}

\* values handed to encode_integer, around the ends of the prefix, of 7, 28
\* and 32 bits
U32Values ==
    {u32(0), u32(1), u32(30), u32(31), u32(127), u32(128), u32(254),
     u32(255), u32(256), u32(1337), <<4095, 65535>>, <<4096, 0>>,
     <<4096, 254>>, <<4096, 255>>, <<32768, 0>>, <<65535, 65535>>}

\* the sources handed to Huffman::encode: every octet value behind 0 to
\* MaxLead octets "0" (5 bits each, so at every bit offset)
MaxLead == 7
HuffSources == {[k \in 1..n |-> 48] \o <<b>> : n \in 0..MaxLead, b \in 0..255}
                   \cup {<<>>, <<38, 38>>}

\* the dest handed to Huffman::encode: DestLen octets, all 0 or all 1 bits
DestLen == 12
Dests == {[k \in 1..DestLen |-> fill] : fill \in {0, 255}}

\* the buffers handed to Huffman::decode
MaxHuffOctets == 4
HuffBuffers == SeqsUpTo({0, 7, 255}, MaxHuffOctets)

\* the buffers a frame view points to: a header that declares 0 to 2 octets
\* of payload before 0 to MaxPayload octets, and buffers shorter than a header
MaxPayload == 2
FrameHeaders ==
    {<<0, 0, l, t, f, 0, 0, 0, i>> :
        l \in 0..2, t \in {0, 1}, f \in {0, 37}, i \in {0, 1}}

FrameBuffers ==
    {h \o p : h \in FrameHeaders, p \in SeqsUpTo({128}, MaxPayload)}
        \cup SeqsUpTo({0}, 4)

InitPure ==
    /\ TableIdle
    /\ DecoderIdle

\* a call is made once, on the inputs chosen for it
Idle == pure = NoPure

Called(c) ==
    /\ pure' = c
    /\ UNCHANGED <<table, call, block, bts, header_list, pc, reps, inserted,
                   init_max_size, budget, frame>>

DecodeInteger ==
    /\ Idle
    /\ \E octets \in SeqsUpTo(IntOctets, MaxIntOctets),
          prefix_size \in PrefixSizes, dbg \in BOOLEAN :
           Called([fn |-> "decode_integer", octets |-> octets,
                   prefix_size |-> prefix_size, dbg |-> dbg,
                   ret |-> decode_integer(octets, prefix_size, dbg)])

\* encode_integer, then decode_integer on the octets it wrote
EncodeInteger ==
    /\ Idle
    /\ \E n \in U32Values, prefix \in 1..8, dbg \in BOOLEAN :
           Called([fn |-> "encode_integer", n |-> n, prefix |-> prefix,
                   dbg |-> dbg, dest |-> encode_integer(n, prefix),
                   back |-> decode_integer(encode_integer(n, prefix), prefix,
                                           dbg)])

\* Huffman::decode on the first `val` octets of dest, val the length
\* Huffman::encode returned
decode_written(r) ==
    IF r.st # "ok" THEN r
    ELSE Returned(huffman_decode(SubSeq(r.dest, 1, r.val)))

HuffmanEncode ==
    /\ Idle
    /\ \E src \in HuffSources, dest \in Dests :
           Called([fn |-> "encode", src |-> src, fill |-> dest[1],
                   ret |-> encode(src, dest),
                   back |-> decode_written(encode(src, dest))])

HuffmanDecode ==
    /\ Idle
    /\ \E buf \in HuffBuffers :
           Called([fn |-> "decode", buf |-> buf,
                   ret |-> Returned(huffman_decode(buf))])

Payload ==
    /\ Idle
    /\ \E buf \in FrameBuffers :
           Called([fn |-> "payload", buf |-> buf, ret |-> payload(buf)])

\* the frames handed to the views of the frame types: the flags of the tests
\* (0x00, 0x08, 0x20, 0x2D) and ACK, over a payload of 0 to MaxTyped octets
\* that starts with a pad length of 0, 1, 2 or more than the payload holds
MaxTyped == 9
TypedFlags == {0, 1, 8, 32, 45}
TypedPayloads ==
    {[k \in 1..n |-> IF k = 1 THEN pl
                     ELSE <<128, 0, 0, 31, 255, 130, 65, 7>>[((k - 2) % 8) + 1]] :
        pl \in {0, 1, 2, 130}, n \in 0..MaxTyped}

\* a frame of the given flags and payload on stream 1, its length declared
\* as it is
Frame(f_flags, p) == <<0, 0, Len(p), 0, f_flags, 0, 0, 0, 1>> \o p

TypedFrames ==
    {Frame(f, p) : f \in TypedFlags, p \in TypedPayloads}
        \cup {<<0, 0, 0, 0>>, <<0, 0, 0, 0, 8, 0>>, <<0, 0, 0, 0, 32, 0>>}

\* SETTINGS frames: the payload of settings_frame_tests cut to 0, 5, 6, 7
\* and 12 octets under a declared length of 0, 5, 6, 7 or 12
SettingsFrames ==
    {<<0, 0, l, 4, f, 0, 0, 0, 0>>
         \o SubSeq(<<0, 1, 0, 0, 0, 3, 0, 2, 128, 0, 0, 5>>, 1, n) :
        l \in {0, 5, 6, 7, 12}, n \in {0, 5, 6, 7, 12}, f \in {0, 1}}
        \cup {<<0, 0>>, <<0, 0, 6, 4>>}

\* WINDOW_UPDATE frames: increments of 400, 0, 2^31 - 1, with and without the
\* reserved bit, and payloads that are not 4 octets
WindowUpdateFrames ==
    {Frame(0, p) : p \in {<<0, 0, 1, 144>>, <<128, 0, 1, 144>>,
                          <<0, 0, 0, 0>>, <<128, 0, 0, 0>>,
                          <<127, 255, 255, 255>>, <<255, 255, 255, 255>>,
                          <<>>, <<0, 0, 1>>, <<0, 0, 1, 144, 7>>}}
        \cup {<<0, 0, 4, 8>>}

\* what a read past the end of the buffer may find
Behind == {<<0, 0, 0, 0>>, <<255, 255, 255, 255>>}

Headers ==
    /\ Idle
    /\ \E buf \in TypedFrames :
           Called([fn |-> "HeadersFrame", buf |-> buf,
                   pad_length |-> get_pad_length(buf),
                   priority_info |-> get_priority_info(buf),
                   fragment |-> get_header_block_fragment(buf)])

GetData ==
    /\ Idle
    /\ \E buf \in TypedFrames, dbg \in BOOLEAN :
           Called([fn |-> "get_data", buf |-> buf, dbg |-> dbg,
                   ret |-> get_data(buf, dbg)])

GetPushData ==
    /\ Idle
    /\ \E buf \in TypedFrames, dbg \in BOOLEAN :
           Called([fn |-> "get_push_data", buf |-> buf, dbg |-> dbg,
                   ret |-> get_push_data(buf, dbg)])

GetSettingsParamaters ==
    /\ Idle
    /\ \E buf \in SettingsFrames, dbg \in BOOLEAN :
           Called([fn |-> "get_settings_paramaters", buf |-> buf,
                   dbg |-> dbg, ret |-> get_settings_paramaters(buf, dbg)])

GetWindowUpdate ==
    /\ Idle
    /\ \E buf \in WindowUpdateFrames, dbg \in BOOLEAN, behind \in Behind :
           Called([fn |-> "get_window_update", buf |-> buf, dbg |-> dbg,
                   ret |-> get_window_update(buf, dbg, behind)])

NextPure ==
    \/ DecodeInteger
    \/ EncodeInteger
    \/ HuffmanEncode
    \/ HuffmanDecode
    \/ Payload

SpecPure == InitPure /\ [][NextPure]_vars

\* the views of the frame types called on their own, as frame_type_tests do
NextTyped ==
    \/ Headers
    \/ GetData
    \/ GetPushData
    \/ GetSettingsParamaters
    \/ GetWindowUpdate

SpecTyped == InitPure /\ [][NextTyped]_vars

---------------------------------------------------------------------------
(* Properties of the table *)

\* the last call submitted an entry to the insert rule
Inserting == call.op \in {"add_entry_literal", "add_entry_id"} /\ call.ok

\* the accounted size the last call asked room for
NewSize == IF Inserting THEN size_of_entry(call.entry) ELSE 0

\* the entries of the table before the call that are still in it
Survivors ==
    IF Inserting /\ table.dyn_table # <<>> THEN Tail(table.dyn_table)
    ELSE table.dyn_table

\* C1: after any sequence of add_entry_literal, add_entry_id and
\* max_size_update calls the accounted sizes of the dynamic entries sum to at
\* most the current max_size.
C1_SizeInvariant == SumSizes(table.dyn_table) <= table.max_size

C1_Witness ==
    /\ call.op = "max_size_update"
    /\ Len(table.dyn_table) < Len(call.pre.dyn_table)
    /\ table.dyn_table # <<>>

\* C2: inserting an entry whose accounted size exceeds max_size evicts every
\* dynamic entry and does not insert the new one: the table has 0 entries and
\* index 62 is out of range.
C2_OversizeEmptiesTable ==
    (Inserting /\ NewSize > call.pre.max_size) =>
        /\ num_dyn_entries(table) = 0
        /\ ~get_header_entry(table, 62).ok

C2_Witness ==
    /\ Inserting
    /\ NewSize > call.pre.max_size
    /\ call.pre.dyn_table # <<>>

C4_FifoMinimalEviction ==
    LET kept == Len(Survivors)
        before == call.pre.dyn_table
    IN  /\ kept <= Len(before)
        /\ Survivors = SubSeq(before, 1, kept)
        /\ kept < Len(before) =>
               SumSizes(SubSeq(before, 1, kept + 1)) + NewSize > table.max_size

C4_Witness ==
    /\ Inserting
    /\ Len(call.pre.dyn_table) = 3
    /\ Len(Survivors) = 1
    /\ size_of_entry(call.pre.dyn_table[1]) > size_of_entry(call.pre.dyn_table[3])

---------------------------------------------------------------------------
(* Properties of the decoder *)

Last == reps[Len(reps)]

\* the header representations (not the size updates) decoded so far
HeaderReps == SelectSeq(reps, LAMBDA r : r.kind # "size_update")

\* the header field a decoded representation stands for
FieldOf(r) ==
    IF r.kind = "indexed_header"
    THEN get_header_entry(r.pre, as_usize(r.int.val)).val
    ELSE field_of(r.pre, r.from, PrefixSize(r.kind)).val

C6_SizeUpdateAboveLimitRejected ==
    (reps # <<>> /\ Last.kind = "size_update" /\ Last.int.st = "ok"
        /\ as_usize(Last.int.val) > init_max_size) =>
            /\ pc = "err"
            /\ table = Last.pre

\* C7: the header list of a block that decodes holds one entry per header
\* representation and none per size update, in the order of the block.
C7_ListFollowsBlock ==
    pc = "ok" =>
        /\ Len(header_list) = Len(HeaderReps)
        /\ \A j \in 1..Len(HeaderReps) : header_list[j] = FieldOf(HeaderReps[j])

C7_Witness ==
    /\ pc = "ok"
    /\ Len(reps) = 3
    /\ reps[2].kind = "size_update"
    /\ Len(header_list) = 2
    /\ header_list[1] # header_list[2]

\* C8: every literal with incremental indexing appends its field to the
\* header list and hands it to the insert rule of the table, whatever the
\* size of the entry and max_size (an oversized entry leaves the table empty).
C8_LiteralAppendedAndInserted ==
    (reps # <<>> /\ Last.kind = "literal_header"
        /\ field_of(Last.pre, Last.from, 6).st = "ok") =>
            /\ pc \in {"loop", "ok"}
            /\ header_list # <<>>
            /\ header_list[Len(header_list)] = FieldOf(Last)
            /\ table = add(Last.pre, FieldEntry(Last.pre, Last.from))

\* C9: an indexed, a literal-without-indexing or a literal-never-indexed
\* representation leaves the dynamic table as it was, whether it decodes or
\* fails.
C9_NoTableMutation ==
    (reps # <<>> /\ Last.kind \in {"indexed_header", "literal_header_unindexed",
                                  "literal_header_never_indexed"}) =>
        table = Last.pre

C9_Witness ==
    /\ reps # <<>>
    /\ Last.kind = "literal_header_unindexed"
    /\ Last.st = "ok"
    /\ num_dyn_entries(table) = 1

\* C10: a size update is accepted only before the first header
\* representation of a block and at most twice: one after an indexed or
\* literal representation, or a third one, makes get_header_list fail.
C10_SizeUpdateOnlyAtStart ==
    \A i \in 1..Len(reps) :
        (/\ reps[i].kind = "size_update"
         /\ \/ \E j \in 1..(i - 1) : reps[j].kind # "size_update"
            \/ i > 2) =>
            reps[i].st = "err"

\* C11: a representation that fails to decode (bad index, truncated or
\* over-long integer) leaves the table as it was just before that
\* representation, so with what the earlier representations of the block did
\* to it.
C11_FailureLeavesTable ==
    (/\ reps # <<>>
     /\ \/ Last.st = "err"
        \/ Last.st = "panic" /\ Last.val # "get_dyn_front on an empty dyn_table")
        => table = Last.pre

C11_Witness ==
    /\ reps # <<>>
    /\ Last.kind = "literal_header"
    /\ Last.st = "err"
    /\ Last.int.st = "ok"
    /\ table # new(init_max_size)
    /\ table = Last.pre

\* RFC 7541 5.1, 5.2: where a block runs out of octets.  A string is short
\* when no octet, or no terminating octet, is left for its length.
NotEnough == {"hpack integer: not enough octets",
              "hpack integer: not enough octets (0)"}

StrLen(octets) == decode_integer(octets, 7, FALSE)

StrShort(octets) ==
    \/ octets = <<>>
    \/ StrLen(octets).st = "err" /\ StrLen(octets).val \in NotEnough

StrRest(octets) ==
    after_take(StrLen(octets).rest, as_usize(StrLen(octets).val))

\* the block ends where the representation r still expects an integer
Truncated(r) ==
    IF r.int.st # "ok" THEN r.int.val \in NotEnough
    ELSE IF r.kind \in {"indexed_header", "size_update"} THEN FALSE
    ELSE IF r.int.val # u32(0) THEN StrShort(r.int.rest)
    ELSE \/ StrShort(r.int.rest)
         \/ StrLen(r.int.rest).st = "ok" /\ StrShort(StrRest(r.int.rest))

\* C12: a block that ends where an index, size or string-length integer is
\* expected, or inside a multi-octet integer, makes get_header_list return an
\* error: it neither aborts nor returns a list.
C12_TruncatedBlockIsError ==
    (reps # <<>> /\ Truncated(Last)) => pc = "err"

\* RFC 7541 5.1: the octets an integer with the given prefix occupies at the
\* head of `octets`: the prefix octet and, when the prefix bits are all ones,
\* the octets up to the first one whose high bit is clear
IntSpan(octets, prefix) ==
    IF BitAnd(Head(octets), Pow2(prefix) - 1) < Pow2(prefix) - 1 THEN 1
    ELSE 1 + (CHOOSE k \in 1..(Len(octets) - 1) :
                  /\ octets[k + 1] < 128
                  /\ \A j \in 1..(k - 1) : octets[j + 1] >= 128)

\* RFC 7541 5.2: the octets of a string literal: its length integer and then
\* as many octets as the integer says
StrSpan(octets) == IntSpan(octets, 7) + as_usize(StrLen(octets).val)

Drop(octets, n) == SubSeq(octets, Min(n, Len(octets)) + 1, Len(octets))

\* the octets the representation r occupies in the block
Span(r) ==
    LET i == IntSpan(r.from, PrefixSize(r.kind))
        s1 == Drop(r.from, i)
    IN  IF r.kind \in {"indexed_header", "size_update"} THEN i
        ELSE IF r.int.val # u32(0) THEN i + StrSpan(s1)
        ELSE i + StrSpan(s1) + StrSpan(Drop(s1, StrSpan(s1)))

\* C15: a decoded representation advances the iterator by exactly its
\* octets: those of each integer, and for each string those of its length
\* integer plus as many octets as that length.
C15_ExactConsumption ==
    (reps # <<>> /\ Last.st = "ok") =>
        Len(Last.from) - Len(Last.rest) = Span(Last)

---------------------------------------------------------------------------
(* Properties of the codecs and of the frame views *)

\* n < 2^28 + 2^prefix - 1, for a u32 n
FitsFiveOctets(n, prefix) ==
    \/ n[1] < 4096
    \/ n[1] = 4096 /\ n[2] < Pow2(prefix) - 1

LongInteger(octets, prefix) ==
    /\ Len(octets) >= 6
    /\ BitAnd(octets[1], Pow2(prefix) - 1) = Pow2(prefix) - 1
    /\ \A k \in 2..5 : octets[k] >= 128

\* C14: decode_integer returns an error for a prefix size outside 1..8 and
\* for every integer of more than five octets in total.
C14_LongIntegerIsError ==
    (/\ pure.fn = "decode_integer"
     /\ \/ pure.prefix_size \notin 1..8
        \/ LongInteger(pure.octets, pure.prefix_size))
        => pure.ret.st = "err"

\* C16: decoding the octets Huffman::encode wrote for S (as many as the
\* length it returned) yields S.
C16_HuffmanRoundTrip ==
    pure.fn = "encode" => pure.back = Returned(pure.src)

RECURSIVE SumLen(_)
SumLen(src) ==
    IF src = <<>> THEN 0
    ELSE HUFFMAN_TABLE[Head(src) + 1][2] + SumLen(Tail(src))

\* C17: the length Huffman::encode returns is the sum of the code lengths of
\* S over 8, rounded up, and the bits of the last octet behind the last code
\* are ones.
C17_EncodedLength ==
    pure.fn = "encode" =>
        /\ pure.ret.st = "ok"
        /\ pure.ret.val = (SumLen(pure.src) + 7) \div 8
        /\ SumLen(pure.src) % 8 # 0 =>
               BitAnd(pure.ret.dest[pure.ret.val],
                      Pow2(8 - (SumLen(pure.src) % 8)) - 1)
                   = Pow2(8 - (SumLen(pure.src) % 8)) - 1

\* RFC 7541 5.2: the bits left behind the last complete symbol of a Huffman
\* string (symbols are the codes of the octets 0..255).  Every 30-bit string
\* but EOS starts with a symbol, so 30 bits without one are EOS.
IsSymbol(code, size) ==
    \E i \in 1..256 : HUFFMAN_TABLE[i] = <<code, size>>

RECURSIVE Residue(_, _, _)
Residue(bits, code, size) ==
    IF size = 30 THEN [size |-> 30 + Len(bits), ones |-> FALSE, eos |-> TRUE]
    ELSE IF bits = <<>>
    THEN [size |-> size, ones |-> code = Pow2(size) - 1, eos |-> FALSE]
    ELSE IF IsSymbol(code * 2 + Head(bits), size + 1)
    THEN Residue(Tail(bits), 0, 0)
    ELSE Residue(Tail(bits), code * 2 + Head(bits), size + 1)

BadPadding(buf) ==
    \/ Residue(BitItor(buf), 0, 0).size > 7
    \/ ~Residue(BitItor(buf), 0, 0).ones

\* C18: a Huffman string whose bits behind the last symbol are more than 7,
\* or are not all ones, fails to decode.
C18_BadPaddingFails ==
    (pure.fn = "decode" /\ BadPadding(pure.buf)) => pure.ret.st = "err"

\* C19: a Huffman string with the 30 bits of EOS at a symbol boundary fails
\* to decode and yields no octet for them.
C19_EosFails ==
    (pure.fn = "decode" /\ Residue(BitItor(pure.buf), 0, 0).eos) =>
        /\ pure.ret.st = "err"
        /\ pure.ret.val = <<>>

\* C20: payload() of a frame view whose header declares length L is the L
\* octets [9 .. 9+L) of the buffer, whatever the size of the buffer.
C20_PayloadIsDeclaredLength ==
    (pure.fn = "payload" /\ get_length(pure.buf).st = "ok") =>
        /\ pure.ret.st = "ok"
        /\ Len(pure.ret.val) = get_length(pure.buf).val
        /\ pure.ret.val = SubSeq(pure.buf, 10, 9 + get_length(pure.buf).val)

\* the field an octet of the buffer belongs to (i counts from 1)
FieldAt(i) ==
    IF i <= 3 THEN "length"
    ELSE IF i = 4 THEN "type"
    ELSE IF i = 5 THEN "flags"
    ELSE IF i <= 9 THEN "s_identifier"
    ELSE "payload"

\* C21: after any sequence of set_length (< 2^24), set_type, set_flags and
\* set_s_identifier (< 2^31) calls on a view, each getter returns the value
\* last written to its field, get_s_identifier ignores the reserved top bit,
\* and each setter changes only the octets of its own field (length 0..3,
\* type 3, flags 4, stream id 5..9) and never the payload.
C21_HeaderSymmetry ==
    /\ Len(frame.buf) = Len(frame.init)
    /\ \A i \in 1..Len(frame.buf) :
           FieldAt(i) \notin frame.set => frame.buf[i] = frame.init[i]
    /\ frame.st = "ok" =>
           /\ ("length" \in frame.set /\ frame.last.length[1] < 256) =>
                  get_length(frame.buf) = Returned(as_usize(frame.last.length))
           /\ "type" \in frame.set =>
                  get_type(frame.buf) = Returned(frame.last.type)
           /\ "flags" \in frame.set =>
                  get_flags(frame.buf) = Returned(frame.last.flags)
           /\ ("s_identifier" \in frame.set
                   /\ frame.last.s_identifier[1] < 32768) =>
                  get_s_identifier(frame.buf)
                      = Returned(frame.last.s_identifier)
           /\ Len(frame.buf) >= 9 =>
                  get_s_identifier(frame.buf)
                      = Returned(<<(frame.buf[6] % 128) * 256 + frame.buf[7],
                                   frame.buf[8] * 256 + frame.buf[9]>>)

C21_Witness ==
    /\ frame.st = "ok"
    /\ frame.set = {"length", "type", "flags", "s_identifier"}
    /\ frame.last.length = <<255, 65535>>
    /\ frame.last.s_identifier = <<32767, 65535>>
    /\ frame.last.type = 9
    /\ frame.init = <<0, 0, 238, 1, 37, 128, 0, 0, 1, 128>>

\* the payload of the frame the last call was made on, its size, its flags
\* and its first octet (the pad length of a padded frame)
CallPayload == SubSeq(pure.buf, 10, Len(pure.buf))
CallLen == Len(pure.buf) - 9
CallFlag(flag) == BitAnd(pure.buf[5], flag) # 0
PadLength == IF CallFlag(PADDED) THEN pure.buf[10] ELSE 0

\* &payload[a .. b], counted from 0 as the layout of RFC 7540 does
Part(a, b) == SubSeq(CallPayload, a + 1, b)

\* where the header block fragment of a HEADERS frame starts
FragmentOffset ==
    (IF CallFlag(PADDED) THEN 1 ELSE 0) + (IF CallFlag(PRIORITY) THEN 5 ELSE 0)

\* the frame holds what its flags announce: the optional fields and the
\* padding fit the payload
WellFormedHeaders ==
    /\ Len(pure.buf) >= 9
    /\ FragmentOffset <= CallLen
    /\ FragmentOffset + PadLength <= CallLen

\* C22: for each of the four (PADDED, PRIORITY) flag combinations the header
\* block fragment starts after the optional pad-length octet and the optional
\* 5-octet priority block (offset 0, 1, 5 or 6) and, when PADDED is set with
\* pad length P, ends P octets before the end of the payload; pad length is
\* present iff PADDED and (exclusive, dependency, weight) iff PRIORITY.
C22_HeadersLayout ==
    (pure.fn = "HeadersFrame" /\ WellFormedHeaders) =>
        /\ pure.fragment = Returned(Part(FragmentOffset, CallLen - PadLength))
        /\ pure.pad_length.st = "ok"
        /\ pure.priority_info.st = "ok"
        /\ (pure.pad_length.val # None) = CallFlag(PADDED)
        /\ (pure.priority_info.val # None) = CallFlag(PRIORITY)

\* C23: without PADDED, get_data is the whole payload; with PADDED and pad
\* length P < len, it is payload[1 .. len-P]; with PADDED and P >= len, the
\* result is a decoding error (not a crash and not a slice).
C23_DataPayload ==
    (pure.fn = "get_data" /\ Len(pure.buf) >= 9) =>
        IF ~CallFlag(PADDED) THEN pure.ret = Returned(CallPayload)
        ELSE IF CallLen = 0 THEN TRUE
        ELSE IF PadLength < CallLen
        THEN pure.ret = Returned(Part(1, CallLen - PadLength))
        ELSE pure.ret.st = "err"

\* C24: without PADDED the promised stream id is the 31-bit value at
\* payload[0..4] and the fragment is payload[4..]; with PADDED and pad length
\* P the promised stream id is at payload[1..5] and the fragment is
\* payload[5 .. len-P].
C24_PushPromisePayload ==
    (pure.fn = "get_push_data" /\ Len(pure.buf) >= 9) =>
        IF ~CallFlag(PADDED)
        THEN CallLen >= 4 =>
                 pure.ret = Returned(<<low31(getu32_from_be(Part(0, 4), TRUE,
                                                            <<>>).val),
                                       Part(4, CallLen)>>)
        ELSE (CallLen >= 5 /\ 5 + PadLength <= CallLen) =>
                 pure.ret = Returned(<<low31(getu32_from_be(Part(1, 5), TRUE,
                                                            <<>>).val),
                                       Part(5, CallLen - PadLength)>>)

\* the k-th (identifier, value) pair of a SETTINGS payload, k from 1
Pair(k) ==
    [id |-> CallPayload[6 * k - 5] * 256 + CallPayload[6 * k - 4],
     value |-> <<CallPayload[6 * k - 3] * 256 + CallPayload[6 * k - 2],
                 CallPayload[6 * k - 1] * 256 + CallPayload[6 * k]>>]

\* C25: a payload of 6k octets yields exactly k (identifier, value) pairs in
\* payload order, each read big-endian as 16 + 32 bits; a length that is not
\* a multiple of 6, or a non-empty payload with the ACK flag set, is reported
\* as an error in every build.
C25_SettingsPayload ==
    (/\ pure.fn = "get_settings_paramaters"
     /\ Len(pure.buf) >= 9
     /\ get_length(pure.buf).val = CallLen) =>
        IF CallLen % 6 # 0 \/ (CallFlag(1) /\ CallLen > 0)
        THEN pure.ret.st = "err"
        ELSE pure.ret = Returned([k \in 1..(CallLen \div 6) |-> Pair(k)])

\* C26: the increment returned is the low 31 bits of the 4-octet big-endian
\* payload (the reserved top bit is ignored), and an increment of 0 is
\* reported as an error.
C26_WindowUpdatePayload ==
    (pure.fn = "get_window_update" /\ CallLen = 4) =>
        IF low31(getu32_from_be(CallPayload, TRUE, <<>>).val) = u32(0)
        THEN pure.ret.st = "err"
        ELSE pure.ret
                 = Returned(low31(getu32_from_be(CallPayload, TRUE, <<>>).val))

\* the places of the entries of the list that have the name n
Places(n) == {i \in 1..Len(header_list) : header_list[i].name = n}

First(S) == CHOOSE i \in S : \A j \in S : i <= j

C28_NameSurvivesEviction ==
    (/\ call.op = "add_entry_id"
     /\ call.ok
     /\ call.name_id >= 62
     /\ NewSize <= call.pre.max_size) =>
        get_name_rc(table, 62) = get_name_rc(call.pre, call.name_id)

\* the entry at index 63 gave its name and was evicted by the call
C28_Witness ==
    /\ call.op = "add_entry_id"
    /\ call.ok
    /\ call.name_id = 63
    /\ NewSize <= call.pre.max_size
    /\ Len(call.pre.dyn_table) = 2
    /\ Len(table.dyn_table) = 2
    /\ call.pre.dyn_table[1][1] # call.pre.dyn_table[2][1]
    /\ call.pre.dyn_table[2][1] # <<>>

\* RFC 7541 5.1: an integer with the given prefix is whole at the head of
\* `octets`: its prefix octet is there and, when the prefix bits are all
\* ones, so is an octet whose high bit is clear
IntWhole(octets, prefix) ==
    /\ octets # <<>>
    /\ \/ BitAnd(Head(octets), Pow2(prefix) - 1) < Pow2(prefix) - 1
       \/ \E k \in 1..(Len(octets) - 1) :
              /\ octets[k + 1] < 128
              /\ \A j \in 1..(k - 1) : octets[j + 1] >= 128

\* RFC 7541 5.2: a string literal is whole: its length and all its octets
StrWhole(octets) ==
    /\ IntWhole(octets, 7)
    /\ StrLen(octets).st = "ok"
    /\ StrSpan(octets) <= Len(octets)

\* RFC 7541 6: the representation at the head of `octets` is whole, and the
\* octets it occupies
RepWhole(octets) ==
    LET kind == representation(Head(octets))
        s1 == Drop(octets, IntSpan(octets, PrefixSize(kind)))
    IN  /\ kind # "Unrecognized block type"
        /\ IntWhole(octets, PrefixSize(kind))
        /\ decode_integer(octets, PrefixSize(kind), FALSE).st = "ok"
        /\ IF kind \in {"indexed_header", "size_update"} THEN TRUE
           ELSE IF decode_integer(octets, PrefixSize(kind), FALSE).val # u32(0)
           THEN StrWhole(s1)
           ELSE StrWhole(s1) /\ StrWhole(Drop(s1, StrSpan(s1)))

RepSpan(octets) ==
    LET kind == representation(Head(octets))
        i == IntSpan(octets, PrefixSize(kind))
        s1 == Drop(octets, i)
    IN  IF kind \in {"indexed_header", "size_update"} THEN i
        ELSE IF decode_integer(octets, PrefixSize(kind), FALSE).val # u32(0)
        THEN i + StrSpan(s1)
        ELSE i + StrSpan(s1) + StrSpan(Drop(s1, StrSpan(s1)))

\* the block consists of whole representations
RECURSIVE WholeBlock(_)
WholeBlock(octets) ==
    IF octets = <<>> THEN TRUE
    ELSE RepWhole(octets) /\ WholeBlock(Drop(octets, RepSpan(octets)))

\* C29: for header blocks A and B that each consist of whole
\* representations, get_header_list(A) then get_header_list(B) on one decoder
\* yields two lists whose concatenation equals the list from
\* get_header_list(A followed by B) on a decoder with the same initial table,
\* and both runs end with the same dynamic table (an entry inserted by A is
\* addressable from index 62 on in B).
C29_StateCarriesAcrossBlocks ==
    (/\ pure.fn = "get_header_list"
     /\ WholeBlock(pure.a)
     /\ WholeBlock(pure.b)
     /\ pure.first.st = "ok") =>
        /\ pure.whole.st = pure.second.st
        /\ pure.whole.table = pure.second.table
        /\ pure.second.st = "ok" =>
               pure.whole.val = pure.first.val \o pure.second.val

\* A inserts (:method, "") and B reads it back at index 62
C29_Witness ==
    /\ pure.fn = "get_header_list"
    /\ pure.a = <<66, 0>>
    /\ pure.b = <<190>>
    /\ WholeBlock(pure.a)
    /\ WholeBlock(pure.b)
    /\ pure.first.st = "ok"
    /\ pure.second.st = "ok"
    /\ pure.second.val = pure.first.val
    /\ Len(pure.whole.val) = 2

\* the continuation octets decode_integer read: those up to and with the
\* first one whose high bit is clear
RECURSIVE Continuation(_)
Continuation(octets) ==
    IF octets = <<>> THEN <<>>
    ELSE IF Head(octets) < 128 THEN <<Head(octets)>>
    ELSE <<Head(octets)>> \o Continuation(Tail(octets))

\* x * 2^k, exactly, as <<high, low>> with low below 2^16 and high as large
\* as it needs to be (k up to 35 and x up to 127 keep it below 2^31)
Scaled(x, k) == IF k < 16 THEN u32(x * Pow2(k)) ELSE <<x * Pow2(k - 16), 0>>

\* a + b on two such pairs, exactly
Plus(a, b) == <<a[1] + b[1] + ((a[2] + b[2]) \div U16), (a[2] + b[2]) % U16>>

\* the sum over the continuation octets i = 0, 1, ... of
\* (octet_i & 0x7F) * 2^(7i), exactly
RECURSIVE ExactSum(_, _)
ExactSum(octets, i) ==
    IF octets = <<>> THEN u32(0)
    ELSE Plus(Scaled(Head(octets) % 128, 7 * i),
              ExactSum(Tail(octets), i + 1))

\* RFC 7541 5.1: the value the octets handed to the last call encode
ExactValue ==
    LET mask == Pow2(pure.prefix_size) - 1
        first == BitAnd(Head(pure.octets), mask)
    IN  IF first < mask THEN u32(first)
        ELSE Plus(u32(first), ExactSum(Continuation(Tail(pure.octets)), 0))

\* C30: decode_integer never returns a wrapped or otherwise wrong value: for
\* every octet sequence it accepts, the result equals (first octet masked to
\* the N-bit prefix) plus the sum over continuation octets i = 0, 1, ... of
\* (octet_i & 0x7F) * 2^(7i), and that exact value fits in 32 bits.
C30_DecodedValueIsExact ==
    (pure.fn = "decode_integer" /\ pure.ret.st = "ok") =>
        /\ pure.ret.val = ExactValue
        /\ ExactValue[1] < U16

====
